---- MODULE Spec2Model ----
(***************************************************************************)
(* Session lifecycle and violation-scoring engine of the study app.        *)
(*                                                                         *)
(* The shared state is the remote document store: the "sessions" and       *)
(* "users" collections.  Every exported function of services/firebase is   *)
(* modelled as the sequence of store round trips it performs: a function   *)
(* with one round trip is one action, a function with several awaits is    *)
(* one action per await, so that calls of different clients interleave at  *)
(* exactly the points where the code suspends.                             *)
(***************************************************************************)
EXTENDS Integers, Sequences, FiniteSets, TLC

(***************************************************************************)
(* Bounds of the model.                                                    *)
(***************************************************************************)
MaxSessions == 2        \* session documents ever created in one behaviour
MaxTime == 2            \* last value of the store's clock
MaxViolations == 2      \* violations an ended session starts with (SpecStats)
MaxCalls == 4           \* calls made per behaviour (SpecViolations)
NumCodes == 2           \* size of the room-code space that is drawn from
MaxSeconds == 301       \* longest single absence that is classified (SpecScoring)
MaxListLen == 3         \* longest violations list that is scored (SpecScoring)

Clients == {"c1", "c2"}             \* devices issuing calls
Users == {"u1", "u2"}               \* user ids
SessionIds == 1..MaxSessions        \* document ids, in order of creation

(***************************************************************************)
(* Program constants.                                                      *)
(***************************************************************************)
DefaultMaxRetries == 10             \* generateRoomCode(maxRetries = 10)
MAX_VIOLATION_SECONDS == 300        \* isSessionSuccessful
MinorLimit == 30                    \* getViolationCategory thresholds
MediumLimit == 120
LargeLimit == 300
CodeBase == 100000                  \* Math.floor(100000 + Math.random() * 900000)

Codes == CodeBase..(CodeBase + NumCodes - 1)

Null == "null"                      \* null / absent field of a document
Undefined == "undefined"            \* omitted optional argument
NoTime == 0                         \* null timestamp (the clock starts at 1)
NoDoc == [exists |-> FALSE]         \* a document that does not exist

VARIABLES
    sessions,       \* "sessions" collection: document id -> document or NoDoc
    users,          \* "users" collection: user id -> profile or NoDoc
    nextId,         \* next fresh document id handed out by addDoc
    now,            \* the clock (serverTimestamp() and Date.now())
    pc,             \* per client: the await its pending call is suspended at
    loc,            \* per client: the local variables of its pending call
    ret,            \* result of the call that finished last
    calls,          \* number of calls made so far, where a specification counts them
    landed,         \* history: violation records whose write has landed, per session
    overlapped,     \* history: pairs of addViolation records that were in flight together
    applied,        \* history: profile writes made by updateUserStats, per session and user
    finished,       \* history: completed updateUserStats calls, <<session, user, again>>
    together,       \* history: <<session, u, v>> whose updateUserStats calls overlapped
    interleaved     \* history: users with a screen call that ran while another device's was in flight

vars == <<sessions, users, nextId, now, pc, loc, ret, calls, landed,
          overlapped, applied, finished, together, interleaved>>

storeVars == <<sessions, users, nextId>>
histVars == <<landed, overlapped, applied, finished, together, interleaved>>

(***************************************************************************)
(* Sequence helpers.                                                       *)
(***************************************************************************)
Range(seq) == {seq[i] : i \in 1..Len(seq)}

Includes(seq, e) == e \in Range(seq)

\* Array.prototype.filter with the predicate (id) => id !== e
RECURSIVE FilterOut(_, _)
FilterOut(seq, e) ==
    IF seq = <<>> THEN <<>>
    ELSE IF Head(seq) = e THEN FilterOut(Tail(seq), e)
         ELSE <<Head(seq)>> \o FilterOut(Tail(seq), e)

IsPrefix(a, b) == Len(a) <= Len(b) /\ SubSeq(b, 1, Len(a)) = a

\* arrayUnion(e) applied to the stored array: appends e unless an equal
\* element is already there.
ArrayUnion(arr, e) == IF Includes(arr, e) THEN arr ELSE Append(arr, e)

(***************************************************************************)
(* Pure functions of the scoring engine.                                   *)
(***************************************************************************)
\* Variant of the classifier whose limits belong to the lower category.
getViolationCategoryInclusive(durationSeconds) ==
    IF durationSeconds <= MinorLimit THEN "minor"
    ELSE IF durationSeconds <= MediumLimit THEN "medium"
    ELSE IF durationSeconds <= LargeLimit THEN "large"
    ELSE "catastrophic"

getViolationCategory(durationSeconds) ==
    IF durationSeconds < MinorLimit THEN "minor"
    ELSE IF durationSeconds < MediumLimit THEN "medium"
    ELSE IF durationSeconds < LargeLimit THEN "large"
    ELSE "catastrophic"

\* Variant of the total that leaves out the filter on userId.
RECURSIVE getUserTotalViolationTimeOfAll(_, _)
getUserTotalViolationTimeOfAll(violations, userId) ==
    IF violations = <<>> THEN 0
    ELSE Head(violations).durationSeconds
         + getUserTotalViolationTimeOfAll(Tail(violations), userId)

RECURSIVE getUserTotalViolationTime(_, _)
getUserTotalViolationTime(violations, userId) ==
    IF violations = <<>> THEN 0
    ELSE (IF Head(violations).userId = userId
          THEN Head(violations).durationSeconds ELSE 0)
         + getUserTotalViolationTime(Tail(violations), userId)

\* Variant of the success test that tolerates a total of exactly the limit.
isSessionSuccessfulLenient(violations, participants) ==
    \A i \in 1..Len(participants) :
        ~(getUserTotalViolationTime(violations, participants[i])
            > MAX_VIOLATION_SECONDS)

isSessionSuccessful(violations, participants) ==
    \A i \in 1..Len(participants) :
        ~(getUserTotalViolationTime(violations, participants[i])
            >= MAX_VIOLATION_SECONDS)

\* A call of one of the pure functions, waiting with its arguments in loc;
\* the step evaluates it and leaves the result next to the arguments.
evalGetViolationCategory(c) ==
    /\ pc[c] = "getViolationCategory"
    /\ pc' = [pc EXCEPT ![c] = "idle"]
    /\ loc' = [loc EXCEPT ![c] =
                 [op |-> "getViolationCategory",
                  durationSeconds |-> @.durationSeconds,
                  category |-> getViolationCategory(@.durationSeconds)]]
    /\ UNCHANGED <<storeVars, now, ret, calls, histVars>>

evalGetUserTotalViolationTime(c) ==
    /\ pc[c] = "getUserTotalViolationTime"
    /\ pc' = [pc EXCEPT ![c] = "idle"]
    /\ loc' = [loc EXCEPT ![c] =
                 [op |-> "getUserTotalViolationTime",
                  violations |-> @.violations, userId |-> @.userId,
                  totalTime |-> getUserTotalViolationTime(@.violations, @.userId)]]
    /\ UNCHANGED <<storeVars, now, ret, calls, histVars>>

evalIsSessionSuccessful(c) ==
    /\ pc[c] = "isSessionSuccessful"
    /\ pc' = [pc EXCEPT ![c] = "idle"]
    /\ loc' = [loc EXCEPT ![c] =
                 [op |-> "isSessionSuccessful",
                  violations |-> @.violations, participants |-> @.participants,
                  result |-> isSessionSuccessful(@.violations, @.participants)]]
    /\ UNCHANGED <<storeVars, now, ret, calls, histVars>>

(***************************************************************************)
(* Store helpers.                                                          *)
(***************************************************************************)
Exists(s) == sessions[s] # NoDoc

Created == 1..(nextId - 1)

Live(s) == Exists(s) /\ sessions[s].status \in {"pending", "active"}

\* where("roomCode", "==", code), where("status", "in", ["pending", "active"])
SessionsWithCode(code) ==
    {s \in SessionIds : Live(s) /\ sessions[s].roomCode = code}

Idle(c) == pc[c] = "idle"

NoLocals == [op |-> "none"]

\* Results of a finished call: a returned value (0 for void) or a thrown error.
NoResult == [kind |-> "none", value |-> 0, text |-> "", flag |-> FALSE]
Ok(value) == [kind |-> "ok", value |-> value, text |-> "", flag |-> FALSE]
Error(message) == [kind |-> "error", value |-> 0, text |-> message, flag |-> FALSE]

Return(c, result) ==
    /\ pc' = [pc EXCEPT ![c] = "idle"]
    /\ loc' = [loc EXCEPT ![c] = NoLocals]
    /\ ret' = result

(***************************************************************************)
(* createSession and generateRoomCode.                                     *)
(***************************************************************************)
\* Calls of createSession that have not written their document yet.
Creating == {c \in Clients : pc[c] \in {"generateRoomCode", "addDoc"}
                              /\ loc[c].op = "createSession"}

\* Number.prototype.toString of a non-negative whole number: its decimal digits.
DigitChars == <<"0", "1", "2", "3", "4", "5", "6", "7", "8", "9">>

RECURSIVE numberToString(_)
numberToString(n) ==
    IF n < 10 THEN <<DigitChars[n + 1]>>
    ELSE numberToString(n \div 10) \o <<DigitChars[(n % 10) + 1]>>

DigitValue(ch) == (CHOOSE i \in 1..10 : DigitChars[i] = ch) - 1

\* parseInt: the value of the leading run of digits (NaN when there is none).
NaN == "NaN"

RECURSIVE parseIntDigits(_, _)
parseIntDigits(str, acc) ==
    IF str = <<>> \/ ~Includes(DigitChars, Head(str)) THEN acc
    ELSE parseIntDigits(Tail(str), acc * 10 + DigitValue(Head(str)))

parseInt(str) ==
    IF str = <<>> \/ ~Includes(DigitChars, Head(str)) THEN NaN
    ELSE parseIntDigits(str, 0)

\* Variant of the stored duration that keeps the argument for a marathon too.
SessionDurationAsGiven(duration, isMarathon) == parseInt(numberToString(duration))

\* isMarathon ? 0 : parseInt(duration.toString())
SessionDuration(duration, isMarathon) ==
    IF isMarathon THEN 0 ELSE parseInt(numberToString(duration))

NewSession(l, roomCode) ==
    [exists |-> TRUE,
     hostId |-> l.hostId,
     participants |-> <<l.hostId>> \o l.participantIds,
     status |-> "pending",
     duration |-> SessionDuration(l.duration, l.isMarathon),
     isMarathon |-> l.isMarathon,
     violations |-> <<>>,
     startTime |-> NoTime,
     endTime |-> NoTime,
     roomCode |-> roomCode,
     outcome |-> Null,
     failReason |-> Null,
     statsUpdatedFor |-> <<>>]

\* createSession up to its first await: the call of generateRoomCode().
createSessionEnter(c, hostId, participantIds, duration, isMarathon) ==
    /\ (nextId - 1) + Cardinality(Creating) < MaxSessions
    /\ pc' = [pc EXCEPT ![c] = "generateRoomCode"]
    /\ loc' = [loc EXCEPT ![c] =
                 [op |-> "createSession", hostId |-> hostId,
                  participantIds |-> participantIds, duration |-> duration,
                  isMarathon |-> isMarathon,
                  maxRetries |-> DefaultMaxRetries, attempt |-> 0, draws |-> 0,
                  roomCode |-> 0]]

createSession(c, hostId, participantIds, duration, isMarathon) ==
    /\ Idle(c)
    /\ createSessionEnter(c, hostId, participantIds, duration, isMarathon)
    /\ UNCHANGED <<storeVars, now, ret, histVars>>

\* Variant of the retry guard that is off by one: it lets one more draw through.
RetriesExhaustedLate(attempt, maxRetries) == attempt > maxRetries

\* The retry guard at the top of generateRoomCode.
RetriesExhausted(attempt, maxRetries) == attempt >= maxRetries

\* The collision test on the query snapshot.
Collides(code) == SessionsWithCode(code) # {}

\* A direct call of generateRoomCode(maxRetries), up to its retry guard.
generateRoomCode(c, maxRetries) ==
    /\ Idle(c)
    /\ pc' = [pc EXCEPT ![c] = "generateRoomCode"]
    /\ loc' = [loc EXCEPT ![c] =
                 [op |-> "generateRoomCode", maxRetries |-> maxRetries,
                  attempt |-> 0, draws |-> 0, roomCode |-> 0]]
    /\ UNCHANGED <<storeVars, now, ret, histVars>>

\* The message of the error thrown when the retries are used up.
ExhaustedMessage == "Failed to generate unique room code after maximum retries"

\* generateRoomCode entered with its budget used up: it throws.
generateRoomCodeThrow(c) ==
    /\ pc[c] = "generateRoomCode"
    /\ RetriesExhausted(loc[c].attempt, loc[c].maxRetries)
    /\ Return(c, Error(ExhaustedMessage))
    /\ UNCHANGED <<storeVars, now, histVars, calls>>

\* One attempt of generateRoomCode: draw a code and run the collision query;
\* on a collision recurse with attempt + 1, otherwise return the code (to
\* createSession, which goes on to its addDoc, or to the direct caller).
generateRoomCodeAttempt(c, code) ==
    /\ pc[c] = "generateRoomCode"
    /\ ~RetriesExhausted(loc[c].attempt, loc[c].maxRetries)
    /\ IF Collides(code)
       THEN /\ loc' = [loc EXCEPT ![c].attempt = @ + 1,
                                  ![c].draws = @ + 1]
            /\ UNCHANGED <<pc, ret>>
       ELSE IF loc[c].op = "createSession"
            THEN /\ pc' = [pc EXCEPT ![c] = "addDoc"]
                 /\ loc' = [loc EXCEPT ![c].draws = @ + 1,
                                       ![c].roomCode = code]
                 /\ ret' = ret
            ELSE Return(c, Ok(code))
    /\ UNCHANGED <<storeVars, now, histVars, calls>>

\* The addDoc of createSession.
createSessionAddDoc(c) ==
    /\ pc[c] = "addDoc"
    /\ sessions' = [sessions EXCEPT ![nextId] = NewSession(loc[c], loc[c].roomCode)]
    /\ nextId' = nextId + 1
    /\ Return(c, Ok(nextId))
    /\ UNCHANGED <<users, now, histVars, calls>>

(***************************************************************************)
(* Single-write transitions.  updateDoc rejects a missing document.        *)
(***************************************************************************)
StartFields(doc) == [doc EXCEPT !.status = "active", !.startTime = now]

startSession(c, s) ==
    /\ Idle(c)
    /\ s \in Created
    /\ IF Exists(s)
       THEN /\ sessions' = [sessions EXCEPT ![s] = StartFields(@)]
            /\ Return(c, Ok(0))
       ELSE /\ sessions' = sessions
            /\ Return(c, Error("No document to update"))
    /\ UNCHANGED <<users, nextId, now, histVars>>

\* failReason || null
FailReasonOrNull(failReason) ==
    IF failReason \in {Undefined, ""} THEN Null ELSE failReason

\* Variant of the endSession write that also clears the violations list.
EndFieldsClearing(doc, outcome, failReason) ==
    [doc EXCEPT !.status = "ended", !.endTime = now, !.outcome = outcome,
                !.failReason = failReason, !.violations = <<>>]

EndFields(doc, outcome, failReason) ==
    [doc EXCEPT !.status = "ended", !.endTime = now,
                !.outcome = outcome, !.failReason = failReason]

endSession(c, s, outcome, failReason) ==
    /\ Idle(c)
    /\ s \in Created
    /\ IF Exists(s)
       THEN /\ sessions' = [sessions EXCEPT
                              ![s] = EndFields(@, outcome, FailReasonOrNull(failReason))]
            /\ Return(c, Ok(0))
       ELSE /\ sessions' = sessions
            /\ Return(c, Error("No document to update"))
    /\ UNCHANGED <<users, nextId, now, histVars>>

terminateSession(c, s, reason) ==
    /\ Idle(c)
    /\ s \in Created
    /\ IF Exists(s)
       THEN /\ sessions' = [sessions EXCEPT ![s] = EndFields(@, "failed", reason)]
            /\ Return(c, Ok(0))
       ELSE /\ sessions' = sessions
            /\ Return(c, Error("No document to update"))
    /\ UNCHANGED <<users, nextId, now, histVars>>

\* deleteDoc succeeds whether or not the document exists.
cancelSession(c, s) ==
    /\ Idle(c)
    /\ s \in Created
    /\ sessions' = [sessions EXCEPT ![s] = NoDoc]
    /\ Return(c, Ok(0))
    /\ UNCHANGED <<users, nextId, now, histVars>>

(***************************************************************************)
(* addViolation: the record is built on the client, the arrayUnion write   *)
(* lands at the store later.                                               *)
(***************************************************************************)
ViolationRecord(userId, type, durationSeconds) ==
    [userId |-> userId, timestamp |-> now, type |-> type,
     durationSeconds |-> durationSeconds,
     category |-> getViolationCategory(durationSeconds)]

\* Calls of addViolation whose write has not landed yet, as <<session, record>>.
InFlight == {<<loc[c].sid, loc[c].record>> :
                c \in {d \in Clients : pc[d] = "addViolationWrite"}}

\* addViolation up to its await, called from `caller`: the arguments and
\* the record built from them are locals of the call.
addViolationFrom(c, caller, s, userId, type, durationSeconds) ==
    /\ Idle(c)
    /\ s \in Created
    /\ LET record == ViolationRecord(userId, type, durationSeconds) IN
         /\ pc' = [pc EXCEPT ![c] = "addViolationWrite"]
         /\ loc' = [loc EXCEPT ![c] =
                      [op |-> caller, sid |-> s, userId |-> userId,
                       type |-> type, durationSeconds |-> durationSeconds,
                       record |-> record]]
         /\ overlapped' = overlapped \cup
              {<<s, f[2], record>> : f \in {g \in InFlight : g[1] = s}}
    /\ UNCHANGED <<storeVars, now, ret, landed, applied, finished, together, interleaved>>

addViolation(c, s, userId, type, durationSeconds) ==
    addViolationFrom(c, "addViolation", s, userId, type, durationSeconds)

\* The shortest absence handleAppStateChange reports.
MinAwaySeconds == 5

\* handleAppStateChange on the return to the foreground: an absence of at
\* least MinAwaySeconds is reported with addViolation.
handleAppStateChange(c, s, userId, timeAwaySeconds) ==
    /\ timeAwaySeconds >= MinAwaySeconds
    /\ addViolationFrom(c, "handleAppStateChange", s, userId, "app-switch",
                        timeAwaySeconds)

\* Variant of the addViolation write that stores the list it computed on the
\* client instead of using arrayUnion.
ViolationsOverwritten(violations, record) == <<record>>

\* The value of the violations field after the write of addViolation.
ViolationsAfterAdd(violations, record) == ArrayUnion(violations, record)

\* Variant of the result that never reports a catastrophic violation.
AddViolationResultCalm(record) ==
    [kind |-> "ok", value |-> 0, text |-> record.category, flag |-> FALSE]

AddViolationResult(record) ==
    [kind |-> "ok", value |-> 0, text |-> record.category,
     flag |-> (record.category = "catastrophic")]

addViolationWrite(c) ==
    /\ pc[c] = "addViolationWrite"
    /\ LET s == loc[c].sid
           record == loc[c].record IN
         IF Exists(s)
         THEN /\ sessions' = [sessions EXCEPT
                    ![s].violations = ViolationsAfterAdd(@, record)]
              /\ landed' = [landed EXCEPT ![s] = @ \cup {record}]
              /\ IF loc[c].op = "handleAppStateChange"
                    /\ AddViolationResult(record).flag
                 THEN /\ pc' = [pc EXCEPT ![c] = "terminateSession"]
                      /\ ret' = AddViolationResult(record)
                      /\ loc' = loc
                 ELSE Return(c, AddViolationResult(record))
         ELSE /\ UNCHANGED <<sessions, landed>>
              /\ Return(c, Error("No document to update"))
    /\ UNCHANGED <<users, nextId, now, overlapped, applied, finished,
                   together, interleaved, calls>>

\* Variant of the reason that states the absence in seconds.
CatastrophicReasonInSeconds(timeAwaySeconds) ==
    "Catastrophic violation by user (" \o ToString(timeAwaySeconds)
        \o " minutes away)"

\* The failReason handleAppStateChange gives terminateSession.
CatastrophicReason(timeAwaySeconds) ==
    "Catastrophic violation by user (" \o ToString(timeAwaySeconds \div 60)
        \o " minutes away)"

\* handleAppStateChange after a catastrophic result: the terminateSession
\* call, with the reason built from the absence.
handleAppStateChangeTerminate(c) ==
    /\ pc[c] = "terminateSession"
    /\ LET s == loc[c].sid
           reason == CatastrophicReason(loc[c].durationSeconds) IN
         IF Exists(s)
         THEN /\ sessions' = [sessions EXCEPT ![s] = EndFields(@, "failed", reason)]
              /\ Return(c, Ok(0))
         ELSE /\ sessions' = sessions
              /\ Return(c, Error("No document to update"))
    /\ UNCHANGED <<users, nextId, now, histVars, calls>>

(***************************************************************************)
(* The active-session screen of one client: its view of the session (the   *)
(* last snapshot delivered), its timer, the latch shared by auto-complete  *)
(* and manual end, and the confirmation dialog of handleEndSession.        *)
(***************************************************************************)
SecondsPerTick == 60                \* seconds of wall time in one clock tick

NoDialog == [open |-> FALSE]

ExceededReason == "Total violations exceeded 5 minute limit"
EarlyReason == "Session ended early"

OnScreen(c) == pc[c] = "activeScreen"

\* The screen is mounted, with or without its endSession call in flight.
Mounted(c) == pc[c] \in {"activeScreen", "endSession"}

\* The screen is mounted for a session id: session is null, timer is 0,
\* the app is in the foreground (appState.current), backgroundTime.current
\* is null and no handler of an app-state change is awaiting anything.
\* inForeground and leftAt are not the program's: they say where the app
\* really is and when it last left the foreground.
openActiveSessionScreen(c, s) ==
    /\ Idle(c)
    /\ s \in Created
    /\ pc' = [pc EXCEPT ![c] = "activeScreen"]
    /\ loc' = [loc EXCEPT ![c] =
                 [op |-> "ActiveSessionScreen", sid |-> s, session |-> NoDoc,
                  timer |-> 0, hasAutoCompleted |-> FALSE, isCompleting |-> FALSE,
                  dialog |-> NoDialog,
                  appState |-> "active", backgroundTime |-> NoTime,
                  handlers |-> <<>>, inForeground |-> TRUE, leftAt |-> NoTime]]
    /\ UNCHANGED <<storeVars, now, ret, calls, histVars>>

\* The subscribeToSession callback: the view becomes the stored document
\* (null when there is none); an ended session routes to the result screen.
\* Calls of the app-state listener that are suspended at that moment go on
\* without the screen.
onSessionSnapshot(c) ==
    /\ OnScreen(c)
    /\ LET data == sessions[loc[c].sid] IN
         /\ loc[c].session # data
         /\ IF data.exists /\ data.status = "ended"
            THEN IF loc[c].handlers = <<>>
                 THEN /\ pc' = [pc EXCEPT ![c] = "idle"]
                      /\ loc' = [loc EXCEPT ![c] = NoLocals]
                 ELSE /\ pc' = [pc EXCEPT ![c] = "leftScreen"]
                      /\ loc' = loc
            ELSE /\ pc' = pc
                 /\ loc' = [loc EXCEPT ![c].session = data]
    /\ UNCHANGED <<storeVars, now, ret, calls, histVars>>

\* calculateElapsed(): whole seconds since the view's startTime.
calculateElapsed(session) == (now - session.startTime) * SecondsPerTick

\* The timer effect and its interval.
timerUpdate(c) ==
    /\ OnScreen(c)
    /\ LET session == loc[c].session IN
         /\ session.exists
         /\ session.status = "active" /\ session.startTime # NoTime
         /\ loc[c].timer # calculateElapsed(session)
         /\ loc' = [loc EXCEPT ![c].timer = calculateElapsed(session)]
    /\ UNCHANGED <<storeVars, now, pc, ret, calls, histVars>>

\* Variant of the latch test that never finds the latch set.
LatchedNever(c) == FALSE

\* hasAutoCompleted.current || isCompleting
Latched(c) == loc[c].hasAutoCompleted \/ loc[c].isCompleting

\* Variant of the condition that treats a marathon session as a timed one.
AutoCompleteDueAnyMode(c) ==
    /\ OnScreen(c)
    /\ loc[c].session.exists
    /\ ~Latched(c)
    /\ loc[c].timer >= loc[c].session.duration * 60
    /\ loc[c].session.status = "active"

\* The condition under which the auto-complete effect ends the session.
AutoCompleteDue(c) ==
    /\ OnScreen(c)
    /\ loc[c].session.exists
    /\ ~Latched(c)
    /\ ~loc[c].session.isMarathon
    /\ loc[c].timer >= loc[c].session.duration * 60
    /\ loc[c].session.status = "active"

\* The call of endSession from the screen: the latch is set and the
\* arguments wait for the write.  The confirmation dialog is dismissed by
\* the press that confirms it; auto-complete leaves an open dialog open.
BeginEnd(c, source, outcome, failReason) ==
    /\ pc' = [pc EXCEPT ![c] = "endSession"]
    /\ loc' = [loc EXCEPT ![c] =
                 [f \in (DOMAIN @) \cup {"source", "outcome", "failReason", "atTimer"} |->
                    CASE f = "source" -> source
                      [] f = "outcome" -> outcome
                      [] f = "failReason" -> failReason
                      [] f = "atTimer" -> @.timer
                      [] f = "hasAutoCompleted" -> TRUE
                      [] f = "isCompleting" -> TRUE
                      [] f = "dialog" -> IF source = "manual" THEN NoDialog
                                         ELSE @.dialog
                      [] OTHER -> @[f]]]

\* Variant of the auto-complete decision that ignores the violations.
AutoCompleteArgsAlwaysSuccessful(session) == <<"successful", Undefined>>

\* The outcome the auto-complete effect passes to endSession.
AutoCompleteArgs(session) ==
    IF isSessionSuccessful(session.violations, session.participants)
    THEN <<"successful", Undefined>>
    ELSE <<"failed", ExceededReason>>

autoComplete(c) ==
    /\ AutoCompleteDue(c)
    /\ LET args == AutoCompleteArgs(loc[c].session) IN
         BeginEnd(c, "auto", args[1], args[2])
    /\ UNCHANGED <<storeVars, now, ret, calls, histVars>>

\* Variant of the handler that treats a marathon session as a timed one.
EndDialogTimedOnly(session, timer) ==
    [open |-> TRUE,
     isMarathon |-> FALSE,
     isCompletedDuration |-> (timer >= session.duration * 60),
     hasLowViolations |->
         isSessionSuccessful(session.violations, session.participants)]

\* handleEndSession: what the handler computes before it shows the dialog.
EndDialog(session, timer) ==
    LET isMarathon == session.isMarathon
        targetSeconds == session.duration * 60
    IN  [open |-> TRUE,
         isMarathon |-> isMarathon,
         isCompletedDuration |-> (isMarathon \/ timer >= targetSeconds),
         hasLowViolations |->
             isSessionSuccessful(session.violations, session.participants)]

\* The End button.  Effects run before the next press is handled, so the
\* button is not pressed while auto-complete is due.
handleEndSession(c) ==
    /\ OnScreen(c)
    /\ loc[c].session.exists
    /\ ~AutoCompleteDue(c)
    /\ ~Latched(c)
    /\ ~loc[c].dialog.open
    /\ loc' = [loc EXCEPT ![c].dialog = EndDialog(loc[c].session, loc[c].timer)]
    /\ UNCHANGED <<storeVars, now, pc, ret, calls, histVars>>

\* Variant of the manual-end decision that looks at the violations first.
ManualEndArgsViolationsFirst(dialog) ==
    IF dialog.isMarathon THEN <<"successful", Undefined>>
    ELSE IF ~dialog.hasLowViolations THEN <<"failed", ExceededReason>>
         ELSE IF ~dialog.isCompletedDuration
              THEN <<"failed", EarlyReason>>
              ELSE <<"successful", Undefined>>

\* The arguments the confirmed dialog passes to endSession.
ManualEndArgs(dialog) ==
    IF dialog.isMarathon THEN <<"successful", Undefined>>
    ELSE IF dialog.isCompletedDuration /\ dialog.hasLowViolations
         THEN <<"successful", Undefined>>
         ELSE IF ~dialog.isCompletedDuration
              THEN <<"failed", EarlyReason>>
              ELSE <<"failed", ExceededReason>>

\* "End Session" in the dialog: with the latch set the press does nothing
\* more than dismiss the dialog.
endDialogConfirm(c) ==
    /\ Mounted(c)
    /\ loc[c].dialog.open
    /\ ~AutoCompleteDue(c)
    /\ IF Latched(c)
       THEN /\ loc' = [loc EXCEPT ![c].dialog = NoDialog]
            /\ pc' = pc
       ELSE LET args == ManualEndArgs(loc[c].dialog) IN
              BeginEnd(c, "manual", args[1], args[2])
    /\ UNCHANGED <<storeVars, now, ret, calls, histVars>>

\* "Cancel" in the dialog.
endDialogCancel(c) ==
    /\ Mounted(c)
    /\ loc[c].dialog.open
    /\ loc' = [loc EXCEPT ![c].dialog = NoDialog]
    /\ UNCHANGED <<storeVars, now, pc, ret, calls, histVars>>

\* The write of the endSession call made by the screen; a rejected write
\* releases the latch.
activeScreenEndSession(c) ==
    /\ pc[c] = "endSession"
    /\ pc' = [pc EXCEPT ![c] = "activeScreen"]
    /\ LET s == loc[c].sid IN
         IF Exists(s)
         THEN /\ sessions' = [sessions EXCEPT ![s] =
                    EndFields(@, loc[c].outcome, FailReasonOrNull(loc[c].failReason))]
              /\ ret' = Ok(0)
              /\ loc' = loc
         ELSE /\ sessions' = sessions
              /\ ret' = Error("No document to update")
              /\ loc' = [loc EXCEPT ![c].hasAutoCompleted = FALSE,
                                    ![c].isCompleting = FALSE]
    /\ UNCHANGED <<users, nextId, now, calls, histVars>>


(***************************************************************************)
(* handleAppStateChange as the listener of the mounted screen.  The        *)
(* listener is called for every change of the app's state; a call that     *)
(* reports an absence awaits addViolation (and terminateSession) and only  *)
(* afterwards clears backgroundTime.current and stores the state it was    *)
(* called with in appState.current.  Calls that arrive in the meantime run *)
(* against the refs as the suspended call left them.                       *)
(***************************************************************************)
\* auth.currentUser.uid on each device.
CurrentUser(c) == IF c = "c1" THEN "u1" ELSE "u2"

\* Handlers one screen has awaiting a write at the same time.
MaxHandlers == 2

\* Remove the i-th element of a sequence.
RemoveAt(seq, i) == SubSeq(seq, 1, i - 1) \o SubSeq(seq, i + 1, Len(seq))

\* appState.current === 'active' && nextAppState === 'background'
LeavesForeground(appState) == appState = "active"

\* The listener called with 'background': there is no await on this path.
appStateToBackground(c) ==
    /\ Mounted(c)
    /\ loc[c].inForeground
    /\ loc' = [loc EXCEPT
                 ![c].inForeground = FALSE,
                 ![c].leftAt = now,
                 ![c].backgroundTime =
                     IF LeavesForeground(loc[c].appState) THEN now ELSE @,
                 ![c].appState = "background"]
    /\ UNCHANGED <<storeVars, now, pc, ret, calls, histVars>>

\* Math.floor((Date.now() - backgroundTime.current) / 1000)
TimeAwaySeconds(backgroundTime) == (now - backgroundTime) * SecondsPerTick

\* The listener called with 'active'.  Coming from the background by
\* appState.current it syncs the timer; with backgroundTime.current set, the
\* view active and at least MinAwaySeconds away it calls addViolation and
\* is suspended; otherwise it runs to its end.
appStateToForeground(c) ==
    /\ Mounted(c)
    /\ ~loc[c].inForeground
    /\ LET l == loc[c]
           view == l.session
           viewActive == IF view.exists THEN view.status = "active" ELSE FALSE
           timeAwaySeconds == TimeAwaySeconds(l.backgroundTime)
           synced == IF viewActive /\ view.startTime # NoTime
                     THEN calculateElapsed(view) ELSE l.timer
       IN  IF l.appState # "background"
           THEN loc' = [loc EXCEPT ![c].inForeground = TRUE,
                                   ![c].appState = "active"]
           ELSE IF /\ l.backgroundTime # NoTime
                   /\ viewActive
                   /\ timeAwaySeconds >= MinAwaySeconds
           THEN /\ Len(l.handlers) < MaxHandlers
                /\ loc' = [loc EXCEPT
                      ![c].inForeground = TRUE,
                      ![c].timer = synced,
                      ![c].handlers =
                          Append(@, [stage |-> "addViolation",
                                     durationSeconds |-> timeAwaySeconds,
                                     record |-> ViolationRecord(CurrentUser(c),
                                                   "app-switch", timeAwaySeconds)])]
           ELSE loc' = [loc EXCEPT ![c].inForeground = TRUE,
                                   ![c].timer = synced,
                                   ![c].backgroundTime = NoTime,
                                   ![c].appState = "active"]
    /\ UNCHANGED <<storeVars, now, pc, ret, calls, histVars>>

\* A suspended call of the listener exists while the screen is mounted or
\* has been left with the call under way.
Listening(c) == pc[c] \in {"activeScreen", "endSession", "leftScreen"}

\* The end of a suspended call: backgroundTime.current = null and
\* appState.current = nextAppState, which was 'active'.
HandlerDone(l, i) ==
    [l EXCEPT !.handlers = RemoveAt(@, i),
              !.backgroundTime = NoTime,
              !.appState = "active"]

\* The i-th suspended call of c runs to its end; nothing is left of a
\* screen that was replaced once its last call has ended.
FinishHandler(c, i) ==
    IF pc[c] = "leftScreen" /\ Len(loc[c].handlers) = 1
    THEN /\ pc' = [pc EXCEPT ![c] = "idle"]
         /\ loc' = [loc EXCEPT ![c] = NoLocals]
    ELSE /\ pc' = pc
         /\ loc' = [loc EXCEPT ![c] = HandlerDone(@, i)]

\* The write of a suspended call's addViolation lands.  A catastrophic
\* result is followed by terminateSession; a rejected write is caught.
appStateAddViolationLands(c, i) ==
    /\ Listening(c)
    /\ i \in 1..Len(loc[c].handlers)
    /\ loc[c].handlers[i].stage = "addViolation"
    /\ LET s == loc[c].sid
           record == loc[c].handlers[i].record IN
         IF Exists(s)
         THEN /\ sessions' = [sessions EXCEPT
                    ![s].violations = ViolationsAfterAdd(@, record)]
              /\ landed' = [landed EXCEPT ![s] = @ \cup {record}]
              /\ IF AddViolationResult(record).flag
                 THEN /\ loc' = [loc EXCEPT
                                  ![c].handlers[i].stage = "terminateSession"]
                      /\ pc' = pc
                 ELSE FinishHandler(c, i)
         ELSE /\ UNCHANGED <<sessions, landed>>
              /\ FinishHandler(c, i)
    /\ UNCHANGED <<users, nextId, now, ret, calls, overlapped, applied,
                   finished, together, interleaved>>

\* The write of a suspended call's terminateSession lands.
appStateTerminateLands(c, i) ==
    /\ Listening(c)
    /\ i \in 1..Len(loc[c].handlers)
    /\ loc[c].handlers[i].stage = "terminateSession"
    /\ LET s == loc[c].sid
           reason == CatastrophicReason(loc[c].handlers[i].durationSeconds) IN
         IF Exists(s)
         THEN sessions' = [sessions EXCEPT ![s] = EndFields(@, "failed", reason)]
         ELSE sessions' = sessions
    /\ FinishHandler(c, i)
    /\ UNCHANGED <<users, nextId, now, ret, calls, histVars>>

(***************************************************************************)
(* joinSessionByCode and leaveSession.                                     *)
(***************************************************************************)
\* getSessionByRoomCode and the checks of joinSessionByCode on its result.
\* The query returns the matching documents in document-id order; ids are
\* random strings, so snapshot.docs[0] is any of the matching documents.
NotFoundMessage == "Session not found. Please check the room code."

\* Variant of the already-started error that reuses the not-found message.
AlreadyStartedAsNotFound == NotFoundMessage

AlreadyStartedMessage == "Session already started. Cannot join now."

EndedMessage == "Session has ended."

\* Variant of the membership test that never finds the user.
AlreadyJoinedNever(participants, userId) == FALSE

\* session.participants.includes(userId)
AlreadyJoined(participants, userId) == Includes(participants, userId)

joinSessionByCodeChecks(c, roomCode, userId) ==
    IF SessionsWithCode(roomCode) = {}
       THEN Return(c, Error(NotFoundMessage))
       ELSE \E s \in SessionsWithCode(roomCode) :
              IF sessions[s].status = "active"
              THEN Return(c, Error(AlreadyStartedMessage))
              ELSE IF sessions[s].status = "ended"
              THEN Return(c, Error(EndedMessage))
              ELSE IF AlreadyJoined(sessions[s].participants, userId)
              THEN Return(c, Ok(s))
              ELSE /\ pc' = [pc EXCEPT ![c] = "joinWrite"]
                   /\ loc' = [loc EXCEPT ![c] =
                                [op |-> "joinSessionByCode", sid |-> s,
                                 userId |-> userId]]
                   /\ ret' = ret

joinSessionByCode(c, roomCode, userId) ==
    /\ Idle(c)
    /\ joinSessionByCodeChecks(c, roomCode, userId)
    /\ UNCHANGED <<storeVars, now, histVars>>

\* Variant of the join write that stores the joiner as the whole list.
ParticipantsReplaced(participants, userId) == <<userId>>

ParticipantsAfterJoin(participants, userId) == ArrayUnion(participants, userId)

joinSessionByCodeWrite(c) ==
    /\ pc[c] = "joinWrite"
    /\ LET s == loc[c].sid IN
         IF Exists(s)
         THEN /\ sessions' = [sessions EXCEPT
                    ![s].participants = ParticipantsAfterJoin(@, loc[c].userId)]
              /\ Return(c, Ok(s))
         ELSE /\ sessions' = sessions
              /\ Return(c, Error("No document to update"))
    /\ UNCHANGED <<users, nextId, now, histVars, calls>>

\* Variant of the filter that also drops the first participant.
UpdatedParticipantsWithoutHead(participants, userId) ==
    FilterOut(IF participants = <<>> THEN <<>> ELSE Tail(participants), userId)

\* sessionData.participants.filter((id) => id !== userId)
UpdatedParticipants(participants, userId) == FilterOut(participants, userId)

\* leaveSession up to its write: read the document, filter the participants.
leaveSession(c, s, userId) ==
    /\ Idle(c)
    /\ s \in Created
    /\ IF ~Exists(s)
       THEN Return(c, Ok(0))
       ELSE /\ pc' = [pc EXCEPT ![c] = "leaveWrite"]
            /\ loc' = [loc EXCEPT ![c] =
                         [op |-> "leaveSession", sid |-> s, userId |-> userId,
                          sessionData |-> sessions[s],
                          updatedParticipants |->
                              UpdatedParticipants(sessions[s].participants, userId)]]
            /\ ret' = ret
    /\ UNCHANGED <<storeVars, now, histVars>>

leaveSessionWrite(c) ==
    /\ pc[c] = "leaveWrite"
    /\ LET s == loc[c].sid IN
         IF Exists(s)
         THEN /\ sessions' = [sessions EXCEPT
                    ![s].participants = loc[c].updatedParticipants]
              /\ Return(c, Ok(0))
         ELSE /\ sessions' = sessions
              /\ Return(c, Error("No document to update"))
    /\ UNCHANGED <<users, nextId, now, histVars, calls>>

(***************************************************************************)
(* Stats reconciliation: loadSession of the result screen reads the ended  *)
(* session and passes that snapshot to updateUserStats.                    *)
(***************************************************************************)
\* Some call of updateUserStats(userId, s) has run to completion.
HasFinished(s, userId) == \E again \in BOOLEAN : <<s, userId, again>> \in finished

\* Calls of updateUserStats that have not returned yet, as <<session, user>>.
Reconciling == {<<loc[c].sid, loc[c].userId>> :
                   c \in {d \in Clients : loc[d].op = "updateUserStats"}}

\* loadSession: getDoc of the session, then the call of updateUserStats.
loadSession(c, s, userId) ==
    /\ Idle(c)
    /\ s \in Created
    /\ IF Exists(s)
       THEN /\ sessions[s].status = "ended"
            /\ pc' = [pc EXCEPT ![c] = "statsGetSession"]
            /\ loc' = [loc EXCEPT ![c] =
                         [op |-> "updateUserStats", sid |-> s, userId |-> userId,
                          sessionData |-> sessions[s],
                          afterFinished |-> HasFinished(s, userId)]]
            /\ together' = together \cup
                 {<<s, r[2], userId>> : r \in {q \in Reconciling : q[1] = s}}
            /\ ret' = ret
       ELSE /\ Return(c, Ok(0))
            /\ together' = together
    /\ UNCHANGED <<storeVars, now, landed, overlapped, applied, finished,
                   interleaved>>

\* Variant of the guard that never recognises an earlier reconciliation.
AlreadyUpdatedIgnored(statsUpdatedFor, userId) == FALSE

\* The guard of updateUserStats on the statsUpdatedFor it has just read.
AlreadyUpdated(statsUpdatedFor, userId) == Includes(statsUpdatedFor, userId)

\* updateUserStats: getDoc of the session and the already-updated check.
updateUserStatsGetSession(c) ==
    /\ pc[c] = "statsGetSession"
    /\ LET s == loc[c].sid
           u == loc[c].userId IN
         IF ~Exists(s) \/ AlreadyUpdated(sessions[s].statsUpdatedFor, u)
         THEN /\ Return(c, Ok(0))
              /\ finished' = finished \cup {<<s, u, loc[c].afterFinished>>}
         ELSE /\ pc' = [pc EXCEPT ![c] = "statsGetUser"]
              /\ UNCHANGED <<loc, ret, finished>>
    /\ UNCHANGED <<storeVars, now, landed, overlapped, applied, together, interleaved, calls>>

\* updateUserStats: getDoc of the user profile.
updateUserStatsGetUser(c) ==
    /\ pc[c] = "statsGetUser"
    /\ LET s == loc[c].sid
           u == loc[c].userId IN
         IF users[u] = NoDoc
         THEN /\ Return(c, Ok(0))
              /\ finished' = finished \cup {<<s, u, loc[c].afterFinished>>}
         ELSE /\ pc' = [pc EXCEPT ![c] = "statsUpdateUser"]
              /\ loc' = [loc EXCEPT ![c] =
                           [f \in (DOMAIN @) \cup {"currentData"} |->
                               IF f = "currentData" THEN users[u] ELSE @[f]]]
              /\ UNCHANGED <<ret, finished>>
    /\ UNCHANGED <<storeVars, now, landed, overlapped, applied, together, interleaved, calls>>

\* updateDoc merges the given fields into the stored document.
Merge(doc, fields) ==
    [f \in DOMAIN doc |-> IF f \in DOMAIN fields THEN fields[f] ELSE doc[f]]

\* Variant of the profile write that credits the session whatever its outcome.
StatsFieldsAlwaysCredited(currentData, sessionData, userId) ==
    [totalHours |-> currentData.totalHours + sessionData.duration,
     violations |-> currentData.violations
                      + getUserTotalViolationTime(sessionData.violations, userId),
     sessionsCompleted |-> currentData.sessionsCompleted + 1]

\* The profile fields written by updateUserStats.  totalHours is kept in
\* sixtieths of an hour, so that duration / 60 hours is `duration` units.
StatsFields(currentData, sessionData, userId) ==
    LET userViolationDuration ==
            getUserTotalViolationTime(sessionData.violations, userId)
        isSuccessful == sessionData.outcome = "successful"
    IN  IF isSuccessful
        THEN [totalHours |-> currentData.totalHours + sessionData.duration,
              violations |-> currentData.violations + userViolationDuration,
              sessionsCompleted |-> currentData.sessionsCompleted + 1]
        ELSE [violations |-> currentData.violations + userViolationDuration]

\* updateUserStats: updateDoc of the profile, computed from the profile
\* read earlier.
updateUserStatsUpdateUser(c) ==
    /\ pc[c] = "statsUpdateUser"
    /\ LET s == loc[c].sid
           u == loc[c].userId IN
         /\ users' = [users EXCEPT ![u] =
                Merge(@, StatsFields(loc[c].currentData, loc[c].sessionData, u))]
         /\ applied' = [applied EXCEPT ![<<s, u>>] = @ + 1]
    /\ pc' = [pc EXCEPT ![c] = "statsMark"]
    /\ UNCHANGED <<sessions, nextId, now, loc, ret, landed, overlapped,
                   finished, together, interleaved, calls>>

\* Variant of the mark that replaces the list instead of using arrayUnion.
StatsUpdatedForReplaced(statsUpdatedFor, userId) == <<userId>>

\* The value of statsUpdatedFor after the mark of updateUserStats.
StatsUpdatedForAfterMark(statsUpdatedFor, userId) ==
    ArrayUnion(statsUpdatedFor, userId)

\* updateUserStats: updateDoc of the session, marking the user as updated.
updateUserStatsMark(c) ==
    /\ pc[c] = "statsMark"
    /\ LET s == loc[c].sid
           u == loc[c].userId IN
         IF Exists(s)
         THEN /\ sessions' = [sessions EXCEPT
                    ![s].statsUpdatedFor = StatsUpdatedForAfterMark(@, u)]
              /\ finished' = finished \cup {<<s, u, loc[c].afterFinished>>}
              /\ Return(c, Ok(0))
         ELSE /\ UNCHANGED <<sessions, finished>>
              /\ Return(c, Error("No document to update"))
    /\ UNCHANGED <<users, nextId, now, landed, overlapped, applied,
                   together, interleaved, calls>>

\* The store rejects the mark (network, permission): the catch block logs
\* and rethrows, the profile write before it stays.
StoreUnavailableMessage == "Error updating user stats"

updateUserStatsMarkRejected(c) ==
    /\ pc[c] = "statsMark"
    /\ Return(c, Error(StoreUnavailableMessage))
    /\ UNCHANGED <<storeVars, now, histVars, calls>>

\* Time passes.
Tick ==
    /\ now < MaxTime
    /\ now' = now + 1
    /\ UNCHANGED <<storeVars, pc, loc, ret, histVars, calls>>

(***************************************************************************)
(* Inputs the calls are made with.                                         *)
(***************************************************************************)
ParticipantIdInputs == {<<>>}              \* the home screen passes []
DurationInputs == {25}                     \* minutes
EndInputs ==                               \* (outcome, failReason) of endSession
    {<<"successful", Undefined>>,
     <<"failed", "Total violations exceeded 5 minute limit">>,
     <<"failed", "Session ended early">>}

NewProfile == [totalHours |-> 0, violations |-> 0, sessionsCompleted |-> 0]

(***************************************************************************)
(* Home, join and lobby screens.  Before it creates or joins a session a   *)
(* screen asks getUserActiveSession for a session its user is already in   *)
(* and, when there is one, offers to go to it or to give it up first.      *)
(***************************************************************************)
\* Variant of the query that leaves pending sessions out.
UserActiveSessionsStarted(userId) ==
    {s \in SessionIds : /\ Exists(s)
                        /\ sessions[s].status = "active"
                        /\ Includes(sessions[s].participants, userId)}

\* where("participants", "array-contains", userId),
\* where("status", "in", ["pending", "active"])
UserActiveSessions(userId) ==
    {s \in SessionIds : Live(s) /\ Includes(sessions[s].participants, userId)}

NoExisting == [id |-> 0, hostId |-> Null, status |-> Null]

\* The fields of the query result that the screens use.
Existing(s) ==
    [id |-> s, hostId |-> sessions[s].hostId, status |-> sessions[s].status]

InvalidDurationMessage == "Please select a duration greater than 0"

LeaveExistingFailedMessage == "Failed to leave existing session"

LeaveLobbyFailedMessage == "Failed to leave lobby"

StartFailedMessage == "Failed to start session"

\* The awaits at which a call of a screen is suspended.
InFlightPcs ==
    {"getUserActiveSession", "generateRoomCode", "addDoc", "getSessionByRoomCode",
     "joinWrite", "existingLeaveWrite", "lobbyLeaveWrite"}

CallsInFlight == {c \in Clients : pc[c] \in InFlightPcs}

ActingFor(c) == IF loc[c].op = "createSession" THEN loc[c].hostId ELSE loc[c].userId

\* The users whose calls are in flight on different devices at once.
Interleaving ==
    IF Cardinality(CallsInFlight) > 1
    THEN {ActingFor(c) : c \in CallsInFlight}
    ELSE {}

\* History: a step that puts a call in flight records whom it runs beside.
NoteInterleaving ==
    /\ interleaved' = interleaved \cup Interleaving'
    /\ UNCHANGED <<landed, overlapped, applied, finished, together>>

\* handleStartPress up to its await of getUserActiveSession.
handleStartPress(c, userId, totalDuration, isMarathon) ==
    /\ Idle(c)
    /\ pc' = [pc EXCEPT ![c] = "getUserActiveSession"]
    /\ loc' = [loc EXCEPT ![c] =
                 [op |-> "handleStartPress", userId |-> userId,
                  totalDuration |-> totalDuration, isMarathon |-> isMarathon,
                  roomCode |-> 0, existing |-> NoExisting,
                  updatedParticipants |-> <<>>]]
    /\ UNCHANGED <<storeVars, now, ret>>
    /\ NoteInterleaving

\* handleJoinSession up to its await of getUserActiveSession.
handleJoinSession(c, userId, roomCode) ==
    /\ Idle(c)
    /\ pc' = [pc EXCEPT ![c] = "getUserActiveSession"]
    /\ loc' = [loc EXCEPT ![c] =
                 [op |-> "handleJoinSession", userId |-> userId,
                  totalDuration |-> 0, isMarathon |-> FALSE,
                  roomCode |-> roomCode, existing |-> NoExisting,
                  updatedParticipants |-> <<>>]]
    /\ UNCHANGED <<storeVars, now, ret>>
    /\ NoteInterleaving

\* The result of getUserActiveSession arrives: snapshot.docs[0] is any of
\* the matching documents.  With a session found the screen opens its
\* dialog; with none the home screen validates the duration and enters
\* createSession, and the join screen enters joinSessionByCode.
getUserActiveSession(c) ==
    /\ pc[c] = "getUserActiveSession"
    /\ IF UserActiveSessions(loc[c].userId) # {}
       THEN /\ \E s \in UserActiveSessions(loc[c].userId) :
                 loc' = [loc EXCEPT ![c].existing = Existing(s)]
            /\ pc' = [pc EXCEPT ![c] = "alreadyInSession"]
            /\ ret' = ret
       ELSE IF loc[c].op = "handleJoinSession"
       THEN /\ pc' = [pc EXCEPT ![c] = "getSessionByRoomCode"]
            /\ UNCHANGED <<loc, ret>>
       ELSE IF ~loc[c].isMarathon /\ loc[c].totalDuration <= 0
       THEN Return(c, Error(InvalidDurationMessage))
       ELSE /\ createSessionEnter(c, loc[c].userId, <<>>,
                                  loc[c].totalDuration, loc[c].isMarathon)
            /\ ret' = ret
    /\ UNCHANGED <<storeVars, now, histVars, calls>>

\* joinSessionByCode as called by the join screen: the room-code query and
\* the checks on its result; an error is shown by its message.
joinScreenJoinSessionByCode(c) ==
    /\ pc[c] = "getSessionByRoomCode"
    /\ joinSessionByCodeChecks(c, loc[c].roomCode, loc[c].userId)
    /\ UNCHANGED <<storeVars, now, histVars, calls>>

\* "Stay Here".
existingStay(c) ==
    /\ pc[c] = "alreadyInSession"
    /\ Return(c, ret)
    /\ UNCHANGED <<storeVars, now, histVars, calls>>

\* State of a lobby screen that has just been mounted for session s.
LobbyLocals(s, userId) ==
    [op |-> "LobbyScreen", sid |-> s, userId |-> userId,
     session |-> NoDoc, loaded |-> FALSE, seen |-> NoDoc,
     isLeaving |-> FALSE, alert |-> FALSE, updatedParticipants |-> <<>>]

\* "Go to Session": the active-session screen for an active session (it is
\* not followed here), the lobby otherwise.
existingGoToSession(c) ==
    /\ pc[c] = "alreadyInSession"
    /\ IF loc[c].existing.status = "active"
       THEN Return(c, ret)
       ELSE /\ pc' = [pc EXCEPT ![c] = "LobbyScreen"]
            /\ loc' = [loc EXCEPT ![c] = LobbyLocals(@.existing.id, @.userId)]
            /\ ret' = ret
    /\ UNCHANGED <<storeVars, now, histVars, calls>>

\* "Cancel It" for the host: cancelSession, then the press is repeated.
\* "Leave It" for anyone else: the read of leaveSession.
existingRelinquish(c) ==
    /\ pc[c] = "alreadyInSession"
    /\ LET s == loc[c].existing.id IN
         IF loc[c].existing.hostId = loc[c].userId
         THEN /\ sessions' = [sessions EXCEPT ![s] = NoDoc]
              /\ pc' = [pc EXCEPT ![c] = "getUserActiveSession"]
              /\ loc' = [loc EXCEPT ![c].existing = NoExisting]
         ELSE IF ~Exists(s)
         THEN /\ sessions' = sessions
              /\ pc' = [pc EXCEPT ![c] = "getUserActiveSession"]
              /\ loc' = [loc EXCEPT ![c].existing = NoExisting]
         ELSE /\ sessions' = sessions
              /\ pc' = [pc EXCEPT ![c] = "existingLeaveWrite"]
              /\ loc' = [loc EXCEPT ![c].updatedParticipants =
                           UpdatedParticipants(sessions[s].participants,
                                               loc[c].userId)]
    /\ UNCHANGED <<users, nextId, now, ret, calls>>
    /\ NoteInterleaving

\* The write of leaveSession called from the dialog, then the press is
\* repeated; a failed write is reported and ends the handler.
existingLeaveWrite(c) ==
    /\ pc[c] = "existingLeaveWrite"
    /\ LET s == loc[c].existing.id IN
         IF Exists(s)
         THEN /\ sessions' = [sessions EXCEPT
                    ![s].participants = loc[c].updatedParticipants]
              /\ pc' = [pc EXCEPT ![c] = "getUserActiveSession"]
              /\ loc' = [loc EXCEPT ![c].existing = NoExisting,
                                    ![c].updatedParticipants = <<>>]
              /\ ret' = ret
         ELSE /\ sessions' = sessions
              /\ Return(c, Error(LeaveExistingFailedMessage))
    /\ UNCHANGED <<users, nextId, now, histVars, calls>>

\* The lobby is mounted with the id that createSession or joinSessionByCode
\* returned for its user, or by "Go to Session".
openLobbyScreen(c, s, userId) ==
    /\ Idle(c)
    /\ Exists(s)
    /\ sessions[s].status = "pending"
    /\ Includes(sessions[s].participants, userId)
    /\ pc' = [pc EXCEPT ![c] = "LobbyScreen"]
    /\ loc' = [loc EXCEPT ![c] = LobbyLocals(s, userId)]
    /\ UNCHANGED <<storeVars, now, ret, histVars>>

InLobby(c) == loc[c].op = "LobbyScreen"

\* Variant of the notice that the removed signal never raises.
CancelledNoticeNever(alert, isLeaving) == alert

\* if (!isLeavingRef.current) Alert.alert('Session Cancelled', ...)
CancelledNotice(alert, isLeaving) == alert \/ ~isLeaving

\* The callback of subscribeToSession in the lobby: null for a missing
\* document, which raises the "Session Cancelled" notice unless this
\* client is leaving; otherwise setSession, and for an active session
\* router.replace to the active-session screen.
onLobbySnapshot(c) ==
    /\ InLobby(c)
    /\ ~loc[c].loaded \/ loc[c].seen # sessions[loc[c].sid]
    /\ LET data == sessions[loc[c].sid] IN
         IF data = NoDoc
         THEN /\ loc' = [loc EXCEPT ![c].loaded = TRUE, ![c].seen = NoDoc,
                                    ![c].alert =
                                        CancelledNotice(@, loc[c].isLeaving)]
              /\ pc' = pc
         ELSE IF data.status = "active" /\ pc[c] = "LobbyScreen"
         THEN /\ pc' = [pc EXCEPT ![c] = "idle"]
              /\ loc' = [loc EXCEPT ![c] = NoLocals]
         ELSE /\ loc' = [loc EXCEPT ![c].loaded = TRUE, ![c].seen = data,
                                    ![c].session = data]
              /\ pc' = pc
    /\ UNCHANGED <<storeVars, now, ret, histVars, calls>>

\* OK on the "Session Cancelled" notice: router.replace to the home screen.
lobbyAlertOk(c) ==
    /\ InLobby(c)
    /\ loc[c].alert
    /\ Return(c, ret)
    /\ UNCHANGED <<storeVars, now, histVars, calls>>

\* auth.currentUser?.uid === session?.hostId
LobbyIsHost(c) ==
    IF loc[c].session = NoDoc THEN FALSE
    ELSE loc[c].session.hostId = loc[c].userId

\* handleLeaveLobby, confirmed: the host's cancelSession lands and the
\* screen returns home; anyone else's leaveSession makes its read.
handleLeaveLobby(c) ==
    /\ pc[c] = "LobbyScreen"
    /\ ~loc[c].alert
    /\ LET s == loc[c].sid IN
         IF LobbyIsHost(c)
         THEN /\ sessions' = [sessions EXCEPT ![s] = NoDoc]
              /\ Return(c, ret)
         ELSE IF ~Exists(s)
         THEN /\ sessions' = sessions
              /\ Return(c, ret)
         ELSE /\ sessions' = sessions
              /\ pc' = [pc EXCEPT ![c] = "lobbyLeaveWrite"]
              /\ loc' = [loc EXCEPT ![c].isLeaving = TRUE,
                                    ![c].updatedParticipants =
                                        UpdatedParticipants(sessions[s].participants,
                                                            loc[c].userId)]
              /\ ret' = ret
    /\ UNCHANGED <<users, nextId, now>>
    /\ NoteInterleaving

\* The write of leaveSession called from the lobby: home on success; on
\* failure isLeavingRef is reset and the screen stays.
lobbyLeaveWrite(c) ==
    /\ pc[c] = "lobbyLeaveWrite"
    /\ LET s == loc[c].sid IN
         IF Exists(s)
         THEN /\ sessions' = [sessions EXCEPT
                    ![s].participants = loc[c].updatedParticipants]
              /\ Return(c, ret)
         ELSE /\ sessions' = sessions
              /\ pc' = [pc EXCEPT ![c] = "LobbyScreen"]
              /\ loc' = [loc EXCEPT ![c].isLeaving = FALSE]
              /\ ret' = Error(LeaveLobbyFailedMessage)
    /\ UNCHANGED <<users, nextId, now, histVars, calls>>

\* handleStartSession: the button is rendered for the host; the screen
\* moves on when the snapshot of the active session arrives.
handleStartSession(c) ==
    /\ pc[c] = "LobbyScreen"
    /\ ~loc[c].alert
    /\ LobbyIsHost(c)
    /\ LET s == loc[c].sid IN
         IF Exists(s)
         THEN /\ sessions' = [sessions EXCEPT ![s] = StartFields(@)]
              /\ ret' = Ok(0)
         ELSE /\ sessions' = sessions
              /\ ret' = Error(StartFailedMessage)
    /\ UNCHANGED <<users, nextId, now, pc, loc, histVars>>

(***************************************************************************)
(* Spec: the session lifecycle.  Any client may issue any lifecycle call   *)
(* on any session it can know of.                                          *)
(***************************************************************************)
Init ==
    /\ sessions = [s \in SessionIds |-> NoDoc]
    /\ users = [u \in Users |-> NewProfile]
    /\ nextId = 1
    /\ now = 1
    /\ pc = [c \in Clients |-> "idle"]
    /\ loc = [c \in Clients |-> NoLocals]
    /\ ret = NoResult
    /\ calls = 0
    /\ landed = [s \in SessionIds |-> {}]
    /\ overlapped = {}
    /\ applied = [p \in SessionIds \X Users |-> 0]
    /\ finished = {}
    /\ together = {}
    /\ interleaved = {}

Create ==
    \E c \in Clients, hostId \in Users, participantIds \in ParticipantIdInputs,
       duration \in DurationInputs, isMarathon \in BOOLEAN :
        /\ createSession(c, hostId, participantIds, duration, isMarathon)
        /\ UNCHANGED calls

GenerateAttempt == \E c \in Clients, code \in Codes : generateRoomCodeAttempt(c, code)

GenerateThrow == \E c \in Clients : generateRoomCodeThrow(c)

CreateAddDoc == \E c \in Clients : createSessionAddDoc(c)

\* The lobby screen offers Start for the session it shows, whatever its status.
Start == UNCHANGED calls /\ \E c \in Clients, s \in SessionIds : startSession(c, s)

\* The active-session screen, which issues endSession and terminateSession,
\* is only opened for a session that has been seen active; what it acts on
\* later may be a stale view, or a document deleted since.
OnActiveScreen(s) == IF Exists(s) THEN sessions[s].startTime # NoTime ELSE TRUE

SeenActive == {s \in SessionIds : OnActiveScreen(s)}

End ==
    /\ UNCHANGED calls
    /\ \E c \in Clients, s \in SeenActive, e \in EndInputs :
         endSession(c, s, e[1], e[2])

Terminate ==
    /\ UNCHANGED calls
    /\ \E c \in Clients, s \in SeenActive :
         terminateSession(c, s, CatastrophicReason(LargeLimit))

Cancel == UNCHANGED calls /\ \E c \in Clients, s \in SessionIds : cancelSession(c, s)

JoinWrite == \E c \in Clients : joinSessionByCodeWrite(c)

LeaveWrite == \E c \in Clients : leaveSessionWrite(c)

Next ==
    \/ Create
    \/ GenerateAttempt
    \/ GenerateThrow
    \/ CreateAddDoc
    \/ Start
    \/ End
    \/ Terminate
    \/ Cancel
    \/ Tick

Spec == Init /\ [][Next]_vars

(***************************************************************************)
(* SpecStats: stats reconciliation of one ended session.  The session was  *)
(* created by u1, joined by u2, started, collected some violations and was *)
(* ended; the clients are on the result screen.                            *)
(***************************************************************************)
StatsAwayInputs == {150}

\* The violation lists the session may have collected: one record per
\* clock tick, of either user.
ViolationLists ==
    UNION {{[i \in 1..n |->
                [userId |-> f[i][1], timestamp |-> i, type |-> "app-switch",
                 durationSeconds |-> f[i][2],
                 category |-> getViolationCategory(f[i][2])]] :
             f \in [1..n -> Users \X StatsAwayInputs]} : n \in 0..MaxViolations}

\* How the session was ended: <<isMarathon, outcome, failReason>>.
Endings ==
    {<<FALSE, "successful", Undefined>>,
     <<FALSE, "failed", "Total violations exceeded 5 minute limit">>,
     <<TRUE, "successful", Undefined>>}

EndedSession(violations, ending) ==
    EndFields(
        [StartFields(NewSession([hostId |-> "u1", participantIds |-> <<"u2">>,
                                 duration |-> 25, isMarathon |-> ending[1]],
                                CodeBase))
            EXCEPT !.violations = violations],
        ending[2], FailReasonOrNull(ending[3]))

InitStats ==
    /\ now = MaxViolations + 1
    /\ \E violations \in ViolationLists, ending \in Endings :
         sessions = [s \in SessionIds |->
                        IF s = 1 THEN EndedSession(violations, ending) ELSE NoDoc]
    /\ users \in {[u \in Users |-> NewProfile],
                  [u \in Users |-> IF u = "u1" THEN NewProfile ELSE NoDoc]}
    /\ nextId = 2
    /\ pc = [c \in Clients |-> "idle"]
    /\ loc = [c \in Clients |-> NoLocals]
    /\ ret = NoResult
    /\ calls = 0
    /\ landed = [s \in SessionIds |-> {}]
    /\ overlapped = {}
    /\ applied = [p \in SessionIds \X Users |-> 0]
    /\ finished = {}
    /\ together = {}
    /\ interleaved = {}

LoadSession ==
    /\ UNCHANGED calls
    /\ \E c \in Clients, s \in SessionIds, u \in Users : loadSession(c, s, u)

StatsGetSession == \E c \in Clients : updateUserStatsGetSession(c)

StatsGetUser == \E c \in Clients : updateUserStatsGetUser(c)

StatsUpdateUser == \E c \in Clients : updateUserStatsUpdateUser(c)

StatsMark == \E c \in Clients : updateUserStatsMark(c)

NextStats ==
    \/ LoadSession
    \/ StatsGetSession
    \/ StatsGetUser
    \/ StatsUpdateUser
    \/ StatsMark
    \/ Cancel

SpecStats == InitStats /\ [][NextStats]_vars

(***************************************************************************)
(* SpecRoomCode: room-code generation against a changing set of reserved   *)
(* codes.  Sessions are created, started, ended and cancelled while        *)
(* createSession and direct generateRoomCode calls draw codes.             *)
(***************************************************************************)
RetryInputs == {0, 1, 2}

CreateByHost == UNCHANGED calls /\ \E c \in Clients : createSession(c, "u1", <<>>, 25, FALSE)

Generate ==
    /\ UNCHANGED calls
    /\ \E c \in Clients, maxRetries \in RetryInputs : generateRoomCode(c, maxRetries)

EndSuccessful ==
    /\ UNCHANGED calls
    /\ \E c \in Clients, s \in SeenActive : endSession(c, s, "successful", Undefined)

NextRoomCode ==
    \/ CreateByHost
    \/ Generate
    \/ GenerateAttempt
    \/ GenerateThrow
    \/ CreateAddDoc
    \/ Start
    \/ EndSuccessful
    \/ Cancel

SpecRoomCode == Init /\ [][NextRoomCode]_vars

\* A call of generateRoomCode that is under way is resumed on its client:
\* its query resolves and the continuation runs.
SpecRoomCodeFair ==
    /\ SpecRoomCode
    /\ \A c \in Clients :
          /\ WF_vars(\E code \in Codes : generateRoomCodeAttempt(c, code))
          /\ WF_vars(generateRoomCodeThrow(c))

(***************************************************************************)
(* SpecViolations: one session from the lobby to the result screen, with   *)
(* every call that touches the session document while it exists.           *)
(***************************************************************************)
InitViolations ==
    /\ now = 1
    /\ sessions = [s \in SessionIds |->
                      IF s = 1
                      THEN NewSession([hostId |-> "u1", participantIds |-> <<>>,
                                       duration |-> 25, isMarathon |-> FALSE],
                                      CodeBase)
                      ELSE NoDoc]
    /\ users = [u \in Users |-> NewProfile]
    /\ nextId = 2
    /\ pc = [c \in Clients |-> "idle"]
    /\ loc = [c \in Clients |-> NoLocals]
    /\ ret = NoResult
    /\ calls = 0
    /\ landed = [s \in SessionIds |-> {}]
    /\ overlapped = {}
    /\ applied = [p \in SessionIds \X Users |-> 0]
    /\ finished = {}
    /\ together = {}
    /\ interleaved = {}

ViolationAwayInputs == {150}

\* Each call a client makes from its screens uses up one unit of the budget;
\* the store round trips that complete a call do not.
Budget == calls < MaxCalls /\ calls' = calls + 1

JoinCall ==
    /\ Budget
    /\ \E c \in Clients, code \in Codes, u \in Users : joinSessionByCode(c, code, u)

LeaveCall ==
    /\ Budget
    /\ \E c \in Clients, s \in SessionIds, u \in Users : leaveSession(c, s, u)

StartCall == Budget /\ \E c \in Clients, s \in SessionIds : startSession(c, s)

EndCall ==
    /\ Budget
    /\ \E c \in Clients, s \in SeenActive, e \in EndInputs :
         endSession(c, s, e[1], e[2])

TerminateCall ==
    /\ Budget
    /\ \E c \in Clients, s \in SeenActive :
         terminateSession(c, s, CatastrophicReason(LargeLimit))

\* handleAppStateChange reports an absence for the signed-in user on the
\* active-session screen.
AddViolationCall ==
    /\ Budget
    /\ \E c \in Clients, s \in SeenActive, u \in Users, d \in ViolationAwayInputs :
         addViolation(c, s, u, "app-switch", d)

AddViolationWrite == \E c \in Clients : addViolationWrite(c)

\* Absences a client returns from, in seconds.
HandlerAwayInputs == {4, 150, 300}

AwayCall ==
    /\ Budget
    /\ \E c \in Clients, s \in SeenActive, u \in Users, t \in HandlerAwayInputs :
         handleAppStateChange(c, s, u, t)

AwayTerminate == \E c \in Clients : handleAppStateChangeTerminate(c)

LoadSessionCall ==
    /\ Budget
    /\ \E c \in Clients, s \in SessionIds, u \in Users : loadSession(c, s, u)

NextViolations ==
    \/ JoinCall
    \/ LeaveCall
    \/ StartCall
    \/ EndCall
    \/ TerminateCall
    \/ AddViolationCall
    \/ LoadSessionCall
    \/ AwayCall
    \/ AwayTerminate
    \/ JoinWrite
    \/ LeaveWrite
    \/ AddViolationWrite
    \/ StatsGetSession
    \/ StatsGetUser
    \/ StatsUpdateUser
    \/ StatsMark
    \/ Tick

SpecViolations == InitViolations /\ [][NextViolations]_vars

(***************************************************************************)
(* SpecScoring: one evaluation of a pure function of the scoring engine,   *)
(* on arguments drawn from the bounded input sets.                         *)
(***************************************************************************)
Durations == 0..MaxSeconds

\* Absences that violation records of a scored list carry.
ScoreSeconds == {0, 29, 150, 299, 300}

ScoreLists ==
    UNION {{[i \in 1..n |->
                [userId |-> f[i][1], timestamp |-> i, type |-> "app-switch",
                 durationSeconds |-> f[i][2],
                 category |-> getViolationCategory(f[i][2])]] :
             f \in [1..n -> Users \X ScoreSeconds]} : n \in 0..MaxListLen}

ParticipantLists == {<<>>, <<"u1">>, <<"u2">>, <<"u1", "u2">>, <<"u2", "u1">>}

ScoringCalls ==
    {[op |-> "getViolationCategory", durationSeconds |-> d] : d \in Durations}
    \cup {[op |-> "getUserTotalViolationTime", violations |-> v, userId |-> u] :
             v \in ScoreLists, u \in Users}
    \cup {[op |-> "isSessionSuccessful", violations |-> v, participants |-> p] :
             v \in ScoreLists, p \in ParticipantLists}

InitScoring ==
    /\ sessions = [s \in SessionIds |-> NoDoc]
    /\ users = [u \in Users |-> NewProfile]
    /\ nextId = 1
    /\ now = 1
    /\ \E c \in Clients, call \in ScoringCalls :
         /\ pc = [d \in Clients |-> IF d = c THEN call.op ELSE "idle"]
         /\ loc = [d \in Clients |-> IF d = c THEN call ELSE NoLocals]
    /\ ret = NoResult
    /\ calls = 0
    /\ landed = [s \in SessionIds |-> {}]
    /\ overlapped = {}
    /\ applied = [p \in SessionIds \X Users |-> 0]
    /\ finished = {}
    /\ together = {}
    /\ interleaved = {}

EvalCategory == \E c \in Clients : evalGetViolationCategory(c)

EvalTotalTime == \E c \in Clients : evalGetUserTotalViolationTime(c)

EvalSuccessful == \E c \in Clients : evalIsSessionSuccessful(c)

NextScoring ==
    \/ EvalCategory
    \/ EvalTotalTime
    \/ EvalSuccessful

SpecScoring == InitScoring /\ [][NextScoring]_vars

(***************************************************************************)
(* SpecEnding: an active session on the active-session screens of its      *)
(* participants, until somebody's endSession lands.  Absences are reported *)
(* by clients that are not on the screen.                                  *)
(***************************************************************************)
\* <<duration in minutes, isMarathon>> of the session.
EndingKinds == {<<1, FALSE>>, <<0, TRUE>>}

InitEnding ==
    /\ now = 1
    /\ \E kind \in EndingKinds, participantIds \in {<<>>, <<"u2">>} :
         sessions = [s \in SessionIds |->
                       IF s = 1
                       THEN StartFields(
                              NewSession([hostId |-> "u1",
                                          participantIds |-> participantIds,
                                          duration |-> kind[1], isMarathon |-> kind[2]],
                                         CodeBase))
                       ELSE NoDoc]
    /\ users = [u \in Users |-> NewProfile]
    /\ nextId = 2
    /\ pc = [c \in Clients |-> "idle"]
    /\ loc = [c \in Clients |-> NoLocals]
    /\ ret = NoResult
    /\ calls = 0
    /\ landed = [s \in SessionIds |-> {}]
    /\ overlapped = {}
    /\ applied = [p \in SessionIds \X Users |-> 0]
    /\ finished = {}
    /\ together = {}
    /\ interleaved = {}

OpenScreen ==
    /\ UNCHANGED calls
    /\ \E c \in Clients, s \in SeenActive : openActiveSessionScreen(c, s)

Snapshot == \E c \in Clients : onSessionSnapshot(c)

TimerUpdate == \E c \in Clients : timerUpdate(c)

AutoComplete == \E c \in Clients : autoComplete(c)

PressEnd == \E c \in Clients : handleEndSession(c)

ConfirmEnd == \E c \in Clients : endDialogConfirm(c)

CancelEnd == \E c \in Clients : endDialogCancel(c)

ScreenEndSession == \E c \in Clients : activeScreenEndSession(c)

EndingAwayInputs == {150}

\* An absence reported while the session has room for another violation.
ReportAbsence ==
    /\ UNCHANGED calls
    /\ \E c \in Clients, s \in SeenActive, u \in Users, t \in EndingAwayInputs :
         /\ Exists(s)
         /\ Len(sessions[s].violations) + Cardinality(InFlight) < MaxViolations
         /\ handleAppStateChange(c, s, u, t)

NextEnding ==
    \/ OpenScreen
    \/ Snapshot
    \/ TimerUpdate
    \/ AutoComplete
    \/ PressEnd
    \/ ConfirmEnd
    \/ CancelEnd
    \/ ScreenEndSession
    \/ ReportAbsence
    \/ AddViolationWrite
    \/ Tick

SpecEnding == InitEnding /\ [][NextEnding]_vars

(***************************************************************************)
(* SpecCreate: calls of createSession over the arguments its signature     *)
(* admits: any host, invited participants, whole minutes, either mode.     *)
(***************************************************************************)
CreateParticipantIds == {<<>>, <<"u2">>, <<"u2", "u1">>}

CreateDurations == {0, 25, 1435}

CreateCall ==
    /\ UNCHANGED calls
    /\ \E c \in Clients, hostId \in Users, participantIds \in CreateParticipantIds,
          duration \in CreateDurations, isMarathon \in BOOLEAN :
         createSession(c, hostId, participantIds, duration, isMarathon)

NextCreate ==
    \/ CreateCall
    \/ GenerateAttempt
    \/ GenerateThrow
    \/ CreateAddDoc

SpecCreate == Init /\ [][NextCreate]_vars

(***************************************************************************)
(* SpecJoin: one pending session with its host in it; clients join it by   *)
(* room code and leave it, while it is started, ended or cancelled.        *)
(***************************************************************************)
JoinUsers == Users \cup {"u3"}

InitJoin ==
    /\ sessions = [s \in SessionIds |->
                      IF s = 1
                      THEN NewSession([hostId |-> "u1", participantIds |-> <<>>,
                                       duration |-> 25, isMarathon |-> FALSE],
                                      CodeBase)
                      ELSE NoDoc]
    /\ users = [u \in Users |-> NewProfile]
    /\ nextId = 2
    /\ now = 1
    /\ pc = [c \in Clients |-> "idle"]
    /\ loc = [c \in Clients |-> NoLocals]
    /\ ret = NoResult
    /\ calls = 0
    /\ landed = [s \in SessionIds |-> {}]
    /\ overlapped = {}
    /\ applied = [p \in SessionIds \X Users |-> 0]
    /\ finished = {}
    /\ together = {}
    /\ interleaved = {}

JoinByCodeCall ==
    /\ Budget
    /\ \E c \in Clients, code \in Codes, u \in JoinUsers : joinSessionByCode(c, code, u)

LeaveSessionCall ==
    /\ Budget
    /\ \E c \in Clients, s \in SessionIds, u \in JoinUsers : leaveSession(c, s, u)

CancelCall == Budget /\ \E c \in Clients, s \in SessionIds : cancelSession(c, s)

NextJoin ==
    \/ JoinByCodeCall
    \/ JoinWrite
    \/ LeaveSessionCall
    \/ LeaveWrite
    \/ StartCall
    \/ EndCall
    \/ CancelCall

SpecJoin == InitJoin /\ [][NextJoin]_vars

(***************************************************************************)
(* SpecLobby: two devices, each signed in as either user, on the home,     *)
(* join and lobby screens.  The presses of a user count as calls.          *)
(***************************************************************************)
HomeInputs == {<<25, FALSE>>, <<0, TRUE>>, <<0, FALSE>>}   \* (totalDuration, isMarathon)

PressStart ==
    /\ Budget
    /\ \E c \in Clients, u \in Users, h \in HomeInputs :
         handleStartPress(c, u, h[1], h[2])

PressJoin ==
    /\ Budget
    /\ \E c \in Clients, u \in Users, code \in Codes : handleJoinSession(c, u, code)

ActiveSessionResult == \E c \in Clients : getUserActiveSession(c)

JoinScreenJoin == \E c \in Clients : joinScreenJoinSessionByCode(c)

ExistingStay == \E c \in Clients : existingStay(c)

ExistingGoTo == \E c \in Clients : existingGoToSession(c)

ExistingRelinquish == \E c \in Clients : existingRelinquish(c)

ExistingLeaveWrite == \E c \in Clients : existingLeaveWrite(c)

OpenLobby ==
    /\ Budget
    /\ \E c \in Clients, s \in SessionIds, u \in Users : openLobbyScreen(c, s, u)

LobbySnapshot == \E c \in Clients : onLobbySnapshot(c)

LobbyAlertOk == \E c \in Clients : lobbyAlertOk(c)

LeaveLobby == Budget /\ \E c \in Clients : handleLeaveLobby(c)

LobbyLeaveWrite == \E c \in Clients : lobbyLeaveWrite(c)

StartFromLobby == Budget /\ \E c \in Clients : handleStartSession(c)

NextLobby ==
    \/ PressStart
    \/ PressJoin
    \/ ActiveSessionResult
    \/ GenerateAttempt
    \/ GenerateThrow
    \/ CreateAddDoc
    \/ JoinScreenJoin
    \/ JoinWrite
    \/ ExistingStay
    \/ ExistingGoTo
    \/ ExistingRelinquish
    \/ ExistingLeaveWrite
    \/ OpenLobby
    \/ LobbySnapshot
    \/ LobbyAlertOk
    \/ LeaveLobby
    \/ LobbyLeaveWrite
    \/ StartFromLobby

SpecLobby == Init /\ [][NextLobby]_vars

(***************************************************************************)
(* SpecCancel: the lobbies of one pending session that u2 has joined, on   *)
(* two devices; the host cancels or starts it, the guest leaves it.  The   *)
(* listener of a mounted lobby delivers every change of its document.      *)
(***************************************************************************)
InitCancel ==
    /\ sessions = [s \in SessionIds |->
                      IF s = 1
                      THEN [NewSession([hostId |-> "u1", participantIds |-> <<>>,
                                        duration |-> 25, isMarathon |-> FALSE],
                                       CodeBase)
                              EXCEPT !.participants = ParticipantsAfterJoin(@, "u2")]
                      ELSE NoDoc]
    /\ users = [u \in Users |-> NewProfile]
    /\ nextId = 2
    /\ now = 1
    /\ pc = [c \in Clients |-> "idle"]
    /\ loc = [c \in Clients |-> NoLocals]
    /\ ret = NoResult
    /\ calls = 0
    /\ landed = [s \in SessionIds |-> {}]
    /\ overlapped = {}
    /\ applied = [p \in SessionIds \X Users |-> 0]
    /\ finished = {}
    /\ together = {}
    /\ interleaved = {}

NextCancel ==
    \/ OpenLobby
    \/ LobbySnapshot
    \/ LobbyAlertOk
    \/ LeaveLobby
    \/ LobbyLeaveWrite
    \/ StartFromLobby

SpecCancel == InitCancel /\ [][NextCancel]_vars

SpecCancelFair ==
    SpecCancel /\ \A c \in Clients : WF_vars(onLobbySnapshot(c))


(***************************************************************************)
(* SpecLatch: SpecEnding with the session's document deleted at any time   *)
(* (cancelSession deletes whatever the status is), which is how a write of *)
(* endSession comes to be rejected and the screen's latch released.        *)
(***************************************************************************)
NextLatch ==
    \/ OpenScreen
    \/ Snapshot
    \/ TimerUpdate
    \/ AutoComplete
    \/ PressEnd
    \/ ConfirmEnd
    \/ CancelEnd
    \/ ScreenEndSession
    \/ ReportAbsence
    \/ AddViolationWrite
    \/ Cancel
    \/ Tick

SpecLatch == InitEnding /\ [][NextLatch]_vars


(***************************************************************************)
(* SpecAway: an active one-minute session of u1 and u2, each on the active *)
(* screen of their own device, leaving and re-entering the foreground      *)
(* while the timers run and auto-complete ends the session.                *)
(***************************************************************************)
\* The device whose app leaves the foreground.
AwayDevices == {"c2"}

\* The readings of the clock: absences of one minute, five and six.
AwayTimes == {1, 2, 7}

InitAway ==
    /\ now = 1
    /\ sessions = [s \in SessionIds |->
                      IF s = 1
                      THEN StartFields(
                             NewSession([hostId |-> "u1",
                                         participantIds |-> <<"u2">>,
                                         duration |-> 1, isMarathon |-> FALSE],
                                        CodeBase))
                      ELSE NoDoc]
    /\ users = [u \in Users |-> NewProfile]
    /\ nextId = 2
    /\ pc = [c \in Clients |-> "idle"]
    /\ loc = [c \in Clients |-> NoLocals]
    /\ ret = NoResult
    /\ calls = 0
    /\ landed = [s \in SessionIds |-> {}]
    /\ overlapped = {}
    /\ applied = [p \in SessionIds \X Users |-> 0]
    /\ finished = {}
    /\ together = {}
    /\ interleaved = {}

ToBackground == \E c \in AwayDevices : appStateToBackground(c)

ToForeground == \E c \in AwayDevices : appStateToForeground(c)

AwayAddViolationLands ==
    \E c \in AwayDevices, i \in 1..MaxHandlers : appStateAddViolationLands(c, i)

AwayTerminateLands ==
    \E c \in AwayDevices, i \in 1..MaxHandlers : appStateTerminateLands(c, i)

AwayTick ==
    /\ \E t \in AwayTimes : t > now /\ now' = t
    /\ UNCHANGED <<storeVars, pc, loc, ret, histVars, calls>>

NextAway ==
    \/ OpenScreen
    \/ Snapshot
    \/ TimerUpdate
    \/ AutoComplete
    \/ ScreenEndSession
    \/ ToBackground
    \/ ToForeground
    \/ AwayAddViolationLands
    \/ AwayTerminateLands
    \/ AwayTick

SpecAway == InitAway /\ [][NextAway]_vars


(***************************************************************************)
(* SpecStatsRetry: the calls of SpecStats on a session that stays, with a  *)
(* store that may reject the mark of updateUserStats; the result screen is *)
(* then opened again.                                                      *)
(***************************************************************************)
MaxRejected == 1        \* profile writes after which a mark may still be rejected

StatsMarkRejected ==
    \E c \in Clients :
        /\ loc[c].op = "updateUserStats"
        /\ applied[<<loc[c].sid, loc[c].userId>>] <= MaxRejected
        /\ updateUserStatsMarkRejected(c)

NextStatsRetry ==
    \/ LoadSession
    \/ StatsGetSession
    \/ StatsGetUser
    \/ StatsUpdateUser
    \/ StatsMark
    \/ StatsMarkRejected

SpecStatsRetry == InitStats /\ [][NextStatsRetry]_vars

(***************************************************************************)
(* Claims about stats reconciliation.                                      *)
(***************************************************************************)
RECURSIVE SumSeconds(_, _)
SumSeconds(violations, indices) ==
    IF indices = {} THEN 0
    ELSE LET i == CHOOSE j \in indices : TRUE
         IN  violations[i].durationSeconds + SumSeconds(violations, indices \ {i})

\* What one reconciliation of user u against session document d is to add.
Contribution(d, u) ==
    [totalHours |-> IF d.outcome = "successful" THEN d.duration ELSE 0,
     violations |->
         SumSeconds(d.violations,
                    {i \in 1..Len(d.violations) : d.violations[i].userId = u}),
     sessionsCompleted |-> IF d.outcome = "successful" THEN 1 ELSE 0]

Plus(profile, contribution) ==
    [totalHours |-> profile.totalHours + contribution.totalHours,
     violations |-> profile.violations + contribution.violations,
     sessionsCompleted |->
         profile.sessionsCompleted + contribution.sessionsCompleted]

\* C3: a session's contribution is added to a user's profile at most once,
\* whatever the interleaving of updateUserStats calls: with one session in
\* the store, a profile holds either nothing of it or its contribution once.
C3_AppliedAtMostOnce ==
    \A s \in SessionIds, u \in Users :
        (Created = {s} /\ Exists(s) /\ users[u] # NoDoc)
        => users[u] \in {NewProfile,
                         Plus(NewProfile, Contribution(sessions[s], u))}

\* C4: a call of updateUserStats(u, s) that starts after an earlier call for
\* the same session and user has completed changes neither u's profile nor
\* the session's statsUpdatedFor in any of its steps.
C4_SecondCallChangesNothing ==
    [][\A c \in Clients :
          (loc[c].op = "updateUserStats" /\ loc[c].afterFinished /\ pc'[c] # pc[c])
          => /\ users'[loc[c].userId] = users[loc[c].userId]
             /\ sessions'[loc[c].sid] = sessions[loc[c].sid]]_vars

\* A second, sequential call has completed on a session whose contribution
\* the first call wrote and marked.
C4_Witness ==
    \E s \in SessionIds, u \in Users :
        /\ <<s, u, TRUE>> \in finished
        /\ applied[<<s, u>>] = 1
        /\ Exists(s) /\ Includes(sessions[s].statsUpdatedFor, u)
        /\ users[u] # NoDoc /\ users[u].violations > 0

\* C5: the profile write of a first reconciliation of u, made on the profile
\* it read, adds the sum of u's violation seconds in the session to
\* violations whatever the outcome, and adds 1 to sessionsCompleted and
\* duration/60 to totalHours exactly when the outcome is successful; when
\* the call then returns, u is in statsUpdatedFor.
C5_FirstReconciliationEffect ==
    /\ [][\A c \in Clients :
            (/\ pc[c] = "statsUpdateUser" /\ pc'[c] = "statsMark"
             /\ applied[<<loc[c].sid, loc[c].userId>>] = 0
             /\ users[loc[c].userId] = loc[c].currentData
             /\ Exists(loc[c].sid))
            => users'[loc[c].userId] =
                 Plus(users[loc[c].userId],
                      Contribution(sessions[loc[c].sid], loc[c].userId))]_vars
    /\ [][\A c \in Clients :
            (pc[c] = "statsMark" /\ pc'[c] = "idle" /\ ret'.kind = "ok")
            => Includes(sessions'[loc[c].sid].statsUpdatedFor, loc[c].userId)]_vars

\* A first reconciliation of a failed session has completed for a user with
\* two violations in it.
C5_Witness ==
    \E s \in SessionIds, u \in Users :
        /\ applied[<<s, u>>] = 1
        /\ Exists(s) /\ Includes(sessions[s].statsUpdatedFor, u)
        /\ sessions[s].outcome = "failed"
        /\ users[u].violations = 300
        /\ users[u].sessionsCompleted = 0

\* C6: when reconciliations of two different users against the same session
\* have both completed, neither user having had two of its own calls in
\* flight at once, each profile holds exactly its own user's contribution
\* and statsUpdatedFor holds both user ids.
C6_DifferentUsersIndependent ==
    \A s \in SessionIds, u \in Users, v \in Users :
        (/\ u # v
         /\ HasFinished(s, u) /\ HasFinished(s, v)
         /\ <<s, u, u>> \notin together /\ <<s, v, v>> \notin together
         /\ Exists(s) /\ users[u] # NoDoc /\ users[v] # NoDoc)
        => /\ applied[<<s, u>>] = 1 /\ applied[<<s, v>>] = 1
           /\ users[u] = Plus(NewProfile, Contribution(sessions[s], u))
           /\ users[v] = Plus(NewProfile, Contribution(sessions[s], v))
           /\ Includes(sessions[s].statsUpdatedFor, u)
           /\ Includes(sessions[s].statsUpdatedFor, v)

\* Two reconciliations of different users overlapped and both completed,
\* each user having violations of its own in the session.
C6_Witness ==
    \E s \in SessionIds :
        /\ <<s, "u1", "u2">> \in together
        /\ HasFinished(s, "u1") /\ HasFinished(s, "u2")
        /\ Exists(s)
        /\ Includes(sessions[s].statsUpdatedFor, "u1")
        /\ Includes(sessions[s].statsUpdatedFor, "u2")
        /\ users["u1"] # NoDoc /\ users["u2"] # NoDoc
        /\ users["u1"].violations > 0 /\ users["u2"].violations > 0

(***************************************************************************)
(* Claims about the session lifecycle.                                     *)
(***************************************************************************)
ForwardMoves == {<<"pending", "active">>, <<"active", "ended">>}

\* C1: in every step the status of a session either stays as it is or moves
\* forward (pending to active, active to ended), and a session document is
\* deleted only while it is pending.
C1_StatusMovesForward ==
    [][\A s \in SessionIds :
          Exists(s) =>
            IF (Exists(s))'
            THEN \/ sessions'[s].status = sessions[s].status
                 \/ <<sessions[s].status, sessions'[s].status>> \in ForwardMoves
            ELSE sessions[s].status = "pending"]_vars

\* C2: once a session is ended, no step changes its outcome, failReason or
\* endTime.
C2_OutcomeFixedOnceEnded ==
    [][\A s \in SessionIds :
          (Exists(s) /\ sessions[s].status = "ended" /\ (Exists(s))') =>
            /\ sessions'[s].outcome = sessions[s].outcome
            /\ sessions'[s].failReason = sessions[s].failReason
            /\ sessions'[s].endTime = sessions[s].endTime]_vars

\* C7: no two distinct sessions that are pending or active carry the same
\* room code.
C7_RoomCodeUnique ==
    \A s, t \in SessionIds :
        (s # t /\ Live(s) /\ Live(t)) => sessions[s].roomCode # sessions[t].roomCode

(***************************************************************************)
(* Claims about room-code generation.                                      *)
(***************************************************************************)
Generating(c) == pc[c] = "generateRoomCode"

\* C8: a call of generateRoomCode(maxRetries) never makes more than
\* maxRetries draws and always comes to an end; a step that hands back a
\* code is made with fewer than maxRetries draws behind it and the code is
\* carried by no pending or active session at the time of the query; a draw
\* that does not end the call collided; and the call fails, with the
\* exhausted-retries error, exactly when maxRetries draws have collided.
C8_GenerateRoomCodeBounded ==
    /\ [](\A c \in Clients : Generating(c) => loc[c].draws <= loc[c].maxRetries)
    /\ [][\A c \in Clients :
            Generating(c) =>
              /\ (Generating(c))' =>
                    (loc'[c].draws = loc[c].draws
                     \/ (/\ loc'[c].draws = loc[c].draws + 1
                         /\ loc[c].draws < loc[c].maxRetries
                         /\ \E code \in Codes : Collides(code)))
              /\ pc'[c] = "addDoc" =>
                    /\ loc[c].draws < loc[c].maxRetries
                    /\ ~Collides(loc'[c].roomCode)
              /\ (pc'[c] = "idle" /\ ret'.kind = "ok") =>
                    /\ loc[c].draws < loc[c].maxRetries
                    /\ ret'.value \in Codes /\ ~Collides(ret'.value)
              /\ (pc'[c] = "idle" /\ ret'.kind # "ok") =>
                    /\ loc[c].draws = loc[c].maxRetries
                    /\ ret' = Error(ExhaustedMessage)
              /\ (pc'[c] # pc[c] /\ loc[c].draws = loc[c].maxRetries) =>
                    ret' = Error(ExhaustedMessage)]_vars
    /\ \A c \in Clients : Generating(c) ~> ~Generating(c)

\* Every code of the code space is reserved by a pending or active session
\* and a call has made all of its two draws, each of which collided.
C8_Witness ==
    /\ \A code \in Codes : Collides(code)
    /\ \E c \in Clients :
          /\ Generating(c)
          /\ loc[c].maxRetries = 2
          /\ loc[c].draws = 2

(***************************************************************************)
(* Claims about the violations list.                                       *)
(***************************************************************************)
\* C9: in every step that leaves a session document in existence, the
\* violations list it held is a prefix of the list it holds afterwards:
\* every record is still there, at the same place and with the same fields.
C9_ViolationsOnlyGrow ==
    [][\A s \in SessionIds :
          (Exists(s) /\ (Exists(s))') =>
            IsPrefix(sessions[s].violations, sessions'[s].violations)]_vars

\* A session that collected a violation has since been ended and reconciled
\* for a user, and still holds the record.
C9_Witness ==
    \E s \in SessionIds :
        /\ Exists(s)
        /\ sessions[s].status = "ended"
        /\ sessions[s].statsUpdatedFor # <<>>
        /\ landed[s] # {}
        /\ landed[s] \subseteq Range(sessions[s].violations)

\* C10: when two calls of addViolation for the same session, made for two
\* different participants, were in flight at the same time and both have
\* written, the violations list holds both records.
C10_ConcurrentViolationsSurvive ==
    \A o \in overlapped :
        (/\ o[2].userId # o[3].userId
         /\ o[2] \in landed[o[1]] /\ o[3] \in landed[o[1]]
         /\ Exists(o[1]))
        => /\ Includes(sessions[o[1]].violations, o[2])
           /\ Includes(sessions[o[1]].violations, o[3])

\* Two overlapping calls for different participants have both written.
C10_Witness ==
    \E o \in overlapped :
        /\ o[2].userId # o[3].userId
        /\ o[2] \in landed[o[1]] /\ o[3] \in landed[o[1]]
        /\ Exists(o[1])
        /\ Len(sessions[o[1]].violations) = 2
        /\ \A c \in Clients : Idle(c)

(***************************************************************************)
(* Claims about the pure functions of the scoring engine.                  *)
(***************************************************************************)
Evaluated(c, op) == pc[c] = "idle" /\ loc[c].op = op

Severity(category) ==
    CASE category = "minor" -> 0
      [] category = "medium" -> 1
      [] category = "large" -> 2
      [] category = "catastrophic" -> 3

MatchingIndices(violations, userId) ==
    {i \in 1..Len(violations) : violations[i].userId = userId}

\* C12: isSessionSuccessful is true exactly when every participant's
\* violation seconds sum to less than 300; it is true for no participants
\* and for no violations.
C12_SuccessfulIffAllBelowLimit ==
    \A c \in Clients :
        Evaluated(c, "isSessionSuccessful") =>
            LET v == loc[c].violations
                p == loc[c].participants
            IN  /\ loc[c].result =
                     (\A i \in 1..Len(p) :
                         SumSeconds(v, MatchingIndices(v, p[i])) < 300)
                /\ (p = <<>> \/ v = <<>>) => loc[c].result

\* A participant with two violations of 150 seconds, none of them
\* catastrophic, has made the session unsuccessful.
C12_Witness ==
    \E c \in Clients :
        /\ Evaluated(c, "isSessionSuccessful")
        /\ loc[c].result = FALSE
        /\ Len(loc[c].violations) = 2
        /\ \A i \in 1..2 :
              /\ loc[c].violations[i].userId = "u1"
              /\ loc[c].violations[i].durationSeconds = 150
        /\ Includes(loc[c].participants, "u1")

Reorderings(n) ==
    {f \in [1..n -> 1..n] : \A i, j \in 1..n : f[i] = f[j] => i = j}

Reordered(seq, f) == [i \in 1..Len(seq) |-> seq[f[i]]]

\* C13: getUserTotalViolationTime is the sum of durationSeconds over the
\* records of the user, the same for every reordering of the list, and for
\* a list split in two it is the sum of the totals of the two parts.
C13_TotalIsOrderFreeSum ==
    \A c \in Clients :
        Evaluated(c, "getUserTotalViolationTime") =>
            LET v == loc[c].violations
                u == loc[c].userId
            IN  /\ loc[c].totalTime = SumSeconds(v, MatchingIndices(v, u))
                /\ MatchingIndices(v, u) = {} => loc[c].totalTime = 0
                /\ \A f \in Reorderings(Len(v)) :
                      getUserTotalViolationTime(Reordered(v, f), u) = loc[c].totalTime
                /\ \A k \in 0..Len(v) :
                      getUserTotalViolationTime(SubSeq(v, 1, k), u)
                        + getUserTotalViolationTime(SubSeq(v, k + 1, Len(v)), u)
                      = loc[c].totalTime

\* A list of three records, two of the user and one of somebody else, has
\* been totalled.
C13_Witness ==
    \E c \in Clients :
        /\ Evaluated(c, "getUserTotalViolationTime")
        /\ Len(loc[c].violations) = 3
        /\ Cardinality(MatchingIndices(loc[c].violations, loc[c].userId)) = 2
        /\ loc[c].totalTime = 179

(***************************************************************************)
(* Claims about addViolation and the presence monitor.                     *)
(***************************************************************************)
AddViolationLands(c) ==
    pc[c] = "addViolationWrite" /\ pc'[c] # pc[c] /\ ret'.kind = "ok"

AddViolationReport(c) ==
    LET d == loc[c].durationSeconds
        r == loc[c].record
    IN  /\ r.userId = loc[c].userId
        /\ r.type = loc[c].type
        /\ r.durationSeconds = d
        /\ r.category = getViolationCategory(d)
        /\ ret'.text = r.category
        /\ ret'.flag = (d >= 300)

\* C14 as stated: every successful addViolation makes the violations list
\* one record longer, the record carrying the call's userId, type, duration
\* and category, and returns that category with isCatastrophic = (d >= 300).
C14_AppendsExactlyOne ==
    [][\A c \in Clients :
          AddViolationLands(c) =>
            /\ AddViolationReport(c)
            /\ sessions'[loc[c].sid].violations =
                 Append(sessions[loc[c].sid].violations, loc[c].record)]_vars

\* C14, amended: a successful addViolation leaves its record in the list,
\* appended as one new last element unless an equal record (same userId,
\* timestamp, type and duration) is already there, in which case the list
\* stays as it is; the returned category and isCatastrophic are as stated.
C14_AppendsUnlessPresent ==
    [][\A c \in Clients :
          AddViolationLands(c) =>
            LET old == sessions[loc[c].sid].violations
                r == loc[c].record
            IN  /\ AddViolationReport(c)
                /\ Includes(sessions'[loc[c].sid].violations, r)
                /\ sessions'[loc[c].sid].violations =
                     IF Includes(old, r) THEN old ELSE Append(old, r)]_vars

\* A catastrophic and a lesser violation have both been added and the last
\* call returned isCatastrophic.
C14_Witness ==
    \E s \in SessionIds :
        /\ Exists(s)
        /\ \E r \in landed[s] : r.category = "catastrophic"
        /\ \E r \in landed[s] : r.category = "large"
        /\ Len(sessions[s].violations) = 2
        /\ ret.kind = "ok" /\ ret.flag /\ ret.text = "catastrophic"

ScreenEndLands(c) ==
    pc[c] = "endSession" /\ pc'[c] = "activeScreen" /\ ret'.kind = "ok"

AllBelowLimit(violations, participants) ==
    \A i \in 1..Len(participants) :
        SumSeconds(violations, MatchingIndices(violations, participants[i])) < 300

TotalOf(s, u) ==
    SumSeconds(sessions[s].violations, MatchingIndices(sessions[s].violations, u))

\* C16: when the screen ends a non-marathon session with elapsed seconds >=
\* duration * 60, by auto-complete or by manual end, the write leaves the
\* session ended and successful with no failReason if every participant's
\* violation seconds sum to less than 300, and otherwise failed with
\* "Total violations exceeded 5 minute limit".
C16_OutcomeAtTargetDuration ==
    [][\A c \in Clients :
          (/\ ScreenEndLands(c)
           /\ ~loc[c].session.isMarathon
           /\ loc[c].atTimer >= loc[c].session.duration * 60)
          => LET after == sessions'[loc[c].sid] IN
               /\ after.status = "ended"
               /\ IF AllBelowLimit(loc[c].session.violations,
                                   loc[c].session.participants)
                  THEN after.outcome = "successful" /\ after.failReason = Null
                  ELSE /\ after.outcome = "failed"
                       /\ after.failReason =
                            "Total violations exceeded 5 minute limit"]_vars

\* A timed session whose participant collected 300 seconds in two
\* violations has been ended at its target duration, as failed.
C16_Witness ==
    \E s \in SessionIds :
        /\ Exists(s) /\ ~sessions[s].isMarathon
        /\ sessions[s].status = "ended"
        /\ sessions[s].outcome = "failed"
        /\ sessions[s].failReason = "Total violations exceeded 5 minute limit"
        /\ TotalOf(s, "u1") = 300
        /\ \E c \in Clients :
              /\ OnScreen(c) /\ loc[c].hasAutoCompleted
              /\ loc[c].source = "auto" /\ loc[c].atTimer >= 60

\* C17: when the screen ends a non-marathon session manually with elapsed
\* seconds below duration * 60, the write leaves the session ended and failed
\* with "Session ended early", whatever the violations are.
C17_EarlyEndFails ==
    [][\A c \in Clients :
          (/\ ScreenEndLands(c)
           /\ loc[c].source = "manual"
           /\ ~loc[c].session.isMarathon
           /\ loc[c].atTimer < loc[c].session.duration * 60)
          => LET after == sessions'[loc[c].sid] IN
               /\ after.status = "ended"
               /\ after.outcome = "failed"
               /\ after.failReason = "Session ended early"]_vars

\* A timed session without violations has been ended manually before its
\* target duration.
C17_Witness ==
    \E s \in SessionIds :
        /\ Exists(s) /\ ~sessions[s].isMarathon
        /\ sessions[s].status = "ended"
        /\ sessions[s].outcome = "failed"
        /\ sessions[s].failReason = "Session ended early"
        /\ sessions[s].violations = <<>>
        /\ \E c \in Clients :
              /\ OnScreen(c) /\ loc[c].hasAutoCompleted
              /\ loc[c].source = "manual" /\ loc[c].atTimer = 0

C19_StartOnlyFromPending ==
    [][\A s \in SessionIds :
          (Exists(s) /\ sessions[s].status # "pending" /\ (Exists(s))') =>
            /\ sessions'[s].startTime = sessions[s].startTime
            /\ sessions'[s].status = "active" => sessions[s].status = "active"]_vars

\* C20: endSession and terminateSession take effect only on an active
\* session: a step that leaves a session ended found it active, or found it
\* ended and kept its endTime, outcome and failReason.
C20_EndOnlyFromActive ==
    [][\A s \in SessionIds :
          (Exists(s) /\ sessions[s].status # "active" /\ (Exists(s))'
             /\ sessions'[s].status = "ended") =>
            /\ sessions[s].status = "ended"
            /\ sessions'[s].endTime = sessions[s].endTime
            /\ sessions'[s].outcome = sessions[s].outcome
            /\ sessions'[s].failReason = sessions[s].failReason]_vars

(***************************************************************************)
(* Claims about createSession.                                             *)
(***************************************************************************)
\* The document and result the addDoc step of client c has to produce.
CreatedBy(c) ==
    /\ pc[c] = "addDoc"
    /\ pc'[c] = "idle"

\* C30: createSession creates a new document with status pending,
\* participants the host followed by participantIds, no violations, null
\* startTime and endTime, no outcome, duration 0 for a marathon and the given
\* duration otherwise, and returns the new document's id.
C30_CreateSessionFields ==
    [][\A c \in Clients :
          CreatedBy(c) =>
            /\ ~Exists(nextId)
            /\ sessions'[nextId] # NoDoc
            /\ \A s \in SessionIds \ {nextId} : sessions'[s] = sessions[s]
            /\ ret' = Ok(nextId)
            /\ LET doc == sessions'[nextId] IN
                 /\ doc.status = "pending"
                 /\ doc.hostId = loc[c].hostId
                 /\ doc.participants = <<loc[c].hostId>> \o loc[c].participantIds
                 /\ doc.violations = <<>>
                 /\ doc.startTime = NoTime
                 /\ doc.endTime = NoTime
                 /\ doc.outcome = Null
                 /\ doc.isMarathon = loc[c].isMarathon
                 /\ doc.duration = IF loc[c].isMarathon THEN 0 ELSE loc[c].duration]_vars

\* A marathon created with a non-zero duration argument and an invited
\* participant, and a timed session of 1435 minutes.
C30_Witness ==
    /\ Exists(1) /\ Exists(2)
    /\ sessions[1].isMarathon /\ sessions[1].duration = 0
    /\ sessions[1].participants = <<"u1", "u2", "u1">>
    /\ ~sessions[2].isMarathon /\ sessions[2].duration = 1435
    /\ ret = Ok(2)

(***************************************************************************)
(* Claims about the fields of a session document.                          *)
(***************************************************************************)
\* C22: in every state of an existing session, outcome is absent exactly
\* when status is not ended and is successful or failed exactly when status
\* is ended, and failReason is non-null only if outcome is failed.
C22_OutcomeMatchesStatus ==
    \A s \in SessionIds :
        Exists(s) =>
          /\ (sessions[s].outcome = Null) <=> (sessions[s].status # "ended")
          /\ (sessions[s].outcome \in {"successful", "failed"})
                <=> (sessions[s].status = "ended")
          /\ (sessions[s].failReason # Null) => (sessions[s].outcome = "failed")

(***************************************************************************)
(* Claims about joinSessionByCode and leaveSession.                        *)
(***************************************************************************)
Carrying(code) == {s \in SessionIds : Exists(s) /\ sessions[s].roomCode = code}

ParticipantsUnchanged ==
    \A s \in SessionIds :
        (Exists(s) /\ sessions'[s] # NoDoc) =>
            sessions'[s].participants = sessions[s].participants

\* C23: joinSessionByCode fails with the not-found error when no session
\* carries the room code, and with the distinct already-started error when
\* the session carrying it is active; neither changes a participants list.
C23_JoinNotFoundAndStarted ==
    [][\A c \in Clients, code \in Codes, u \in JoinUsers :
          joinSessionByCode(c, code, u) =>
            /\ Carrying(code) = {} =>
                 /\ ret' = Error(NotFoundMessage)
                 /\ ParticipantsUnchanged
            /\ (Carrying(code) # {}
                  /\ \A s \in Carrying(code) : sessions[s].status = "active") =>
                 /\ ret' = Error(AlreadyStartedMessage)
                 /\ ret' # Error(NotFoundMessage)
                 /\ ParticipantsUnchanged]_vars

\* A join by room code has just been refused because the session is active.
C23_Witness ==
    /\ ret = Error(AlreadyStartedMessage)
    /\ Exists(1) /\ sessions[1].status = "active"
    /\ sessions[1].participants = <<"u1">>

EndedCarrying(code) == {s \in Carrying(code) : sessions[s].status = "ended"}

\* C24: joinSessionByCode called with the room code of a session that is
\* ended fails with the ended error, which is not the not-found error.
C24_JoinEndedError ==
    [][\A c \in Clients, code \in Codes, u \in JoinUsers :
          (joinSessionByCode(c, code, u)
             /\ Carrying(code) # {} /\ EndedCarrying(code) = Carrying(code)) =>
            /\ ret' = Error(EndedMessage)
            /\ ret' # Error(NotFoundMessage)]_vars

NoDuplicates(seq) == \A i, j \in 1..Len(seq) : seq[i] = seq[j] => i = j

\* C25: joinSessionByCode is idempotent per user: called for a user who is
\* already a participant of the pending session carrying the code, it
\* returns that session's id and writes nothing, now or later; and no user
\* appears twice in a participants list.
C25_JoinIdempotent ==
    /\ [](\A s \in SessionIds : Exists(s) => NoDuplicates(sessions[s].participants))
    /\ [][\A c \in Clients, code \in Codes, u \in JoinUsers :
            (joinSessionByCode(c, code, u)
               /\ \E s \in Carrying(code) :
                    /\ Carrying(code) = {s}
                    /\ sessions[s].status = "pending"
                    /\ Includes(sessions[s].participants, u)) =>
              /\ ret' = Ok(CHOOSE s \in Carrying(code) : TRUE)
              /\ pc'[c] = "idle"
              /\ sessions' = sessions]_vars

\* The pending session holds u1 and u2 once each after three calls, the
\* last of which returned its id.
C25_Witness ==
    /\ calls = 3
    /\ \A c \in Clients : pc[c] = "idle"
    /\ ret = Ok(1)
    /\ Exists(1) /\ sessions[1].status = "pending"
    /\ sessions[1].participants = <<"u1", "u2">>

\* C26: the write of a join keeps every participant that is in the list when
\* it lands, in place, and adds the joining user; so when two users join the
\* same pending session concurrently, whichever write lands second keeps
\* the user of the first.
C26_ConcurrentJoinsSurvive ==
    [][\A c \in Clients :
          (pc[c] = "joinWrite" /\ pc'[c] = "idle" /\ Exists(loc[c].sid)) =>
            LET s == loc[c].sid IN
              /\ sessions'[s] # NoDoc
              /\ IsPrefix(sessions[s].participants, sessions'[s].participants)
              /\ Includes(sessions'[s].participants, loc[c].userId)
              /\ \A t \in SessionIds \ {s} : sessions'[t] = sessions[t]]_vars

\* Two calls were made, the joins of u2 and u3, and both users are in the
\* list together with the host.
C26_Witness ==
    /\ calls = 2
    /\ \A c \in Clients : pc[c] = "idle"
    /\ Exists(1)
    /\ Range(sessions[1].participants) = {"u1", "u2", "u3"}

Without(participants, userId) ==
    LET Other(id) == id # userId IN SelectSeq(participants, Other)

\* C27: leaveSession whose write finds the document as its read left it
\* removes userId from participants, whatever the status, and changes no
\* other field and no other participant, also when the list becomes empty;
\* called for a document that no longer exists it returns successfully and
\* writes nothing.
C27_LeaveRemovesOnlyUser ==
    /\ [][\A c \in Clients :
            (pc[c] = "leaveWrite" /\ pc'[c] = "idle"
               /\ sessions[loc[c].sid] = loc[c].sessionData) =>
              LET s == loc[c].sid IN
                /\ sessions' =
                     [sessions EXCEPT ![s].participants =
                         Without(sessions[s].participants, loc[c].userId)]
                /\ ret' = Ok(0)]_vars
    /\ [][\A c \in Clients, s \in SessionIds, u \in JoinUsers :
            (leaveSession(c, s, u) /\ ~Exists(s)) =>
              /\ ret' = Ok(0)
              /\ pc'[c] = "idle"
              /\ sessions' = sessions]_vars

\* The host, alone in the session, has left it after it ended: the list is
\* empty and the session is as it ended.
C27_Witness ==
    /\ calls = 3
    /\ \A c \in Clients : pc[c] = "idle"
    /\ ret = Ok(0)
    /\ Exists(1)
    /\ sessions[1].participants = <<>>
    /\ sessions[1].status = "ended"
    /\ sessions[1].outcome \in {"successful", "failed"}

(***************************************************************************)
(* Claims about the home, join and lobby screens.                          *)
(***************************************************************************)
\* C21: cancelSession deletes a session only while it is pending: no step
\* deletes the document of a session that is active or ended.
C21_CancelOnlyPending ==
    [][\A s \in SessionIds :
          (Exists(s) /\ sessions[s].status \in {"active", "ended"}) =>
            sessions'[s] # NoDoc]_vars

LiveSessionsOf(u) ==
    {s \in SessionIds :
        /\ Exists(s)
        /\ sessions[s].status \in {"pending", "active"}
        /\ \E i \in 1..Len(sessions[s].participants) : sessions[s].participants[i] = u}

Subscribed(c, s) == InLobby(c) /\ loc[c].sid = s

GotNull(c) == loc[c].loaded /\ loc[c].seen = NoDoc

\* C28: once a session document is deleted, every lobby still subscribed to
\* it eventually gets the callback with null; a lobby that gets it while it
\* is not itself leaving shows the session-cancelled notice, and the notice
\* is left only for the home screen.
C28_RemovedSignalReachesLobby ==
    /\ \A c \in Clients, s \in SessionIds :
         (Subscribed(c, s) /\ s \in Created /\ ~Exists(s))
            ~> (~Subscribed(c, s) \/ GotNull(c))
    /\ [][\A c \in Clients :
            (InLobby(c) /\ ~GotNull(c) /\ ~loc[c].isLeaving
               /\ (InLobby(c))' /\ (GotNull(c))') =>
              loc'[c].alert]_vars
    /\ [][\A c \in Clients :
            (InLobby(c) /\ loc[c].alert) =>
              \/ pc'[c] = pc[c] /\ loc'[c] = loc[c]
              \/ pc'[c] = "idle" /\ loc'[c] = NoLocals]_vars

\* A lobby that is not leaving shows the notice for its deleted session,
\* which the other device cancelled.
C28_Witness ==
    \E c \in Clients :
        /\ InLobby(c)
        /\ pc[c] = "LobbyScreen"
        /\ loc[c].alert
        /\ ~loc[c].isLeaving
        /\ loc[c].session # NoDoc
        /\ ~Exists(loc[c].sid)

(***************************************************************************)
(* Claims about who is in a session.                                       *)
(***************************************************************************)
\* C31: every existing session has its hostId among its participants, with
\* the clients going through the home, join and lobby screens.
C31_HostAlwaysParticipant ==
    \A s \in SessionIds :
        Exists(s) => Includes(sessions[s].participants, sessions[s].hostId)

(***************************************************************************)
(* Claims about the races of the active-session screen.                    *)
(***************************************************************************)
LatchSet(c) ==
    /\ loc[c].op = "ActiveSessionScreen"
    /\ loc[c].hasAutoCompleted \/ loc[c].isCompleting

IssuesEnd(c) == pc[c] # "endSession" /\ pc'[c] = "endSession"

\* C32: on one client's screen an endSession call is issued, by
\* auto-complete or by the confirmed dialog, only while the latch is clear,
\* and issuing it sets the latch; the latch of a mounted screen is released
\* only by the rejection of the call in flight.  Hence the path that comes
\* second issues nothing, and a screen issues one call unless a call failed.
C32_EndPathsExclusive ==
    [][\A c \in Clients :
          /\ IssuesEnd(c) => (~LatchSet(c) /\ LatchSet(c)')
          /\ (LatchSet(c) /\ loc'[c].op = "ActiveSessionScreen" /\ ~LatchSet(c)')
                => (pc[c] = "endSession" /\ ret'.kind = "error")]_vars

\* Auto-complete has issued its endSession while the confirmation dialog of
\* the manual path is open: "End Session" can be pressed with the latch set.
C32_Witness ==
    \E c \in Clients :
        /\ pc[c] = "endSession"
        /\ loc[c].source = "auto"
        /\ loc[c].hasAutoCompleted
        /\ loc[c].dialog.open

\* C33: a screen showing a marathon session issues endSession only from the
\* confirmed dialog, whatever its timer shows: the auto-complete effect
\* never ends a marathon session.
C33_MarathonNeverAutoCompletes ==
    [][\A c \in Clients :
          (IssuesEnd(c) /\ loc[c].session.exists /\ loc[c].session.isMarathon)
          => loc'[c].source = "manual"]_vars

\* A marathon session (duration 0) is shown active with a minute on the
\* timer and the latch clear, and is still active in the store.
C33_Witness ==
    \E c \in Clients :
        /\ OnScreen(c)
        /\ loc[c].session.exists
        /\ loc[c].session.isMarathon
        /\ loc[c].session.status = "active"
        /\ loc[c].timer >= 60
        /\ loc[c].timer >= loc[c].session.duration * 60
        /\ ~LatchSet(c)
        /\ sessions[loc[c].sid].exists
        /\ sessions[loc[c].sid].status = "active"

\* C34: when the screen's endSession lands with outcome successful on a
\* non-marathon session, every participant's violation seconds in the
\* stored session sum to less than 300 at that moment.
C34_SuccessfulMeansStoredBelowLimit ==
    [][\A c \in Clients :
          (/\ ScreenEndLands(c)
           /\ ~loc[c].session.isMarathon
           /\ loc[c].outcome = "successful")
          => LET after == sessions'[loc[c].sid] IN
               AllBelowLimit(after.violations, after.participants)]_vars

\* No call that writes to a session is under way on any device.
Settled ==
    \A c \in Clients :
        /\ pc[c] \in {"idle", "activeScreen"}
        /\ pc[c] = "activeScreen" => loc[c].handlers = <<>>

HasCatastrophic(violations) ==
    \E i \in 1..Len(violations) : violations[i].durationSeconds >= 300

\* C35: once the calls under way have landed, a session whose violations
\* include one of 300 seconds or more is not ended as successful.
C35_CatastrophicNeverSuccessful ==
    \A s \in SessionIds :
        (/\ Settled
         /\ Exists(s)
         /\ HasCatastrophic(sessions[s].violations)
         /\ sessions[s].status = "ended")
        => sessions[s].outcome # "successful"

\* C36: no step changes the violations of a session whose status is ended.
C36_NoViolationAfterEnded ==
    [][\A s \in SessionIds :
          (Exists(s) /\ sessions[s].status = "ended" /\ sessions'[s].exists)
          => sessions'[s].violations = sessions[s].violations]_vars

\* The listener of c is called with 'active' in this step.
ReturnsToForeground(c) ==
    /\ Mounted(c) /\ ~loc[c].inForeground
    /\ loc'[c].op = "ActiveSessionScreen" /\ loc'[c].inForeground

\* C39: when the app returns to the foreground on the screen of a session
\* that is active, in the store and in the screen's view, an absence of at
\* least 5 seconds makes exactly one addViolation call, carrying the seconds
\* of that absence, and a shorter absence makes none, whatever calls of the
\* listener are still suspended.
C39_OneViolationPerAbsence ==
    [][\A c \in Clients :
          (/\ ReturnsToForeground(c)
           /\ loc[c].session.exists
           /\ loc[c].session.status = "active"
           /\ sessions[loc[c].sid].exists
           /\ sessions[loc[c].sid].status = "active")
          => LET away == (now - loc[c].leftAt) * SecondsPerTick IN
               IF away >= 5
               THEN /\ Len(loc'[c].handlers) = Len(loc[c].handlers) + 1
                    /\ loc'[c].handlers[Len(loc'[c].handlers)].durationSeconds = away
               ELSE loc'[c].handlers = loc[c].handlers]_vars

(***************************************************************************)
(* Claims about joins and leaves that interleave with other calls.         *)
(***************************************************************************)
\* C37: no step adds a user id to the participants of a session whose
\* status is active or ended.
C37_NoJoinAfterStart ==
    [][\A s \in SessionIds :
          (/\ Exists(s)
           /\ sessions[s].status \in {"active", "ended"}
           /\ sessions'[s].exists)
          => Range(sessions'[s].participants) \subseteq
                 Range(sessions[s].participants)]_vars

\* C38: the write of a leaveSession call removes nobody but the user the
\* call was made for: every other user who is in participants when the
\* write lands, a user who joined after the call's read included, is in
\* participants afterwards.
C38_LeaveKeepsOtherJoiners ==
    [][\A c \in Clients :
          (pc[c] = "leaveWrite" /\ pc'[c] = "idle" /\ Exists(loc[c].sid))
          => LET s == loc[c].sid IN
               Range(sessions[s].participants) \ {loc[c].userId}
                   \subseteq Range(sessions'[s].participants)]_vars

(***************************************************************************)
(* Claims about a reconciliation that fails half way.                      *)
(***************************************************************************)
\* A user is marked in statsUpdatedFor only after a profile write for them.
MarkedOnlyIfWritten ==
    \A s \in SessionIds, u \in Users :
        (Exists(s) /\ Includes(sessions[s].statsUpdatedFor, u))
        => applied[<<s, u>>] >= 1

\* Calls of updateUserStats for one user that run one after the other write
\* the session's contribution to the profile at most once.
WrittenOnceWhenSerial ==
    \A s \in SessionIds, u \in Users :
        (<<s, u, u>> \notin together) => applied[<<s, u>>] <= 1

\* C40: a user id is in statsUpdatedFor only if the session's contribution
\* has been written to the user's profile, and calls of updateUserStats made
\* one after the other, a call whose mark was rejected after its profile
\* write and the retry that follows included, write it exactly once.
C40_MarkedOnlyIfWrittenOnce ==
    MarkedOnlyIfWritten /\ WrittenOnceWhenSerial

====
